---- MODULE Spec2Model ----
(***************************************************************************)
(* MealMind: the generate -> validate -> retry loop of the orchestrator,   *)
(* the compliance validator, the recipe generator with its fallback, the   *)
(* nutrient lookup with its cache, the schedule optimizer's statistics,    *)
(* and the profile store / memory bank with the writes made to them.       *)
(*                                                                         *)
(* Python str values are TLA+ strings; Len, \o and SubSeq act on them as   *)
(* on sequences of characters.  Python lists are sequences, dicts are      *)
(* functions over their keys.                                              *)
(***************************************************************************)
EXTENDS Integers, Sequences, FiniteSets, TLC

VARIABLES
    profiles,           \* FamilyProfileStore.profiles: household_id -> HouseholdProfile
    memory,             \* MemoryBank.memory
    use_gemini,         \* RecipeGeneratorAgent.use_gemini
    pc,                 \* position of the running request
    request,            \* arguments of generate_complete_meal_plan
    planning_context,   \* local of generate_complete_meal_plan
    constraints,        \* local of generate_complete_meal_plan
    weekly_plan,        \* local of generate_complete_meal_plan
    day_meals,          \* local of generate_complete_meal_plan
    day_num,            \* loop variable of generate_complete_meal_plan
    meal_idx,           \* index into MealTypes of the slot being planned
    attempt,            \* loop variable of _generate_validated_recipe
    recipe,             \* local of _generate_validated_recipe
    validation,         \* local of _generate_validated_recipe
    outcome,            \* what the request returned or raised
    slot_log,           \* history: the Recipe Source calls of the latest slot
    trace,              \* history: what the request has done so far
    api_key,            \* NutritionLookupTool.api_key
    cache,              \* NutritionLookupTool.cache: lower-cased query -> food data
    storage_file,       \* the file at FamilyProfileStore.storage_path
    writers,            \* the add_member / update_member calls in progress
    called,             \* an operation called on its own: its name and arguments
    returned            \* history: what the calls of `called` returned, in order

vars == <<profiles, memory, use_gemini, pc, request, planning_context, constraints,
          weekly_plan, day_meals, day_num, meal_idx, attempt, recipe, validation,
          outcome, slot_log, trace, api_key, cache, storage_file, writers, called, returned>>

-----------------------------------------------------------------------------
(* Python str and list helpers *)

\* str.lower() on one character (ASCII letters)
LowerMap ==
    ("A" :> "a") @@ ("B" :> "b") @@ ("C" :> "c") @@ ("D" :> "d") @@ ("E" :> "e") @@
    ("F" :> "f") @@ ("G" :> "g") @@ ("H" :> "h") @@ ("I" :> "i") @@ ("J" :> "j") @@
    ("K" :> "k") @@ ("L" :> "l") @@ ("M" :> "m") @@ ("N" :> "n") @@ ("O" :> "o") @@
    ("P" :> "p") @@ ("Q" :> "q") @@ ("R" :> "r") @@ ("S" :> "s") @@ ("T" :> "t") @@
    ("U" :> "u") @@ ("V" :> "v") @@ ("W" :> "w") @@ ("X" :> "x") @@ ("Y" :> "y") @@
    ("Z" :> "z")

LowerChar(c) == IF c \in DOMAIN LowerMap THEN LowerMap[c] ELSE c

RECURSIVE Lower(_)
\* str.lower(), character by character
Lower(s) ==
    IF Len(s) = 0 THEN ""
    ELSE LowerChar(SubSeq(s, 1, 1)) \o Lower(SubSeq(s, 2, Len(s)))

\* Python `needle in hay` on str
Contains(needle, hay) ==
    \E i \in 0..(Len(hay) - Len(needle)) : SubSeq(hay, i + 1, i + Len(needle)) = needle

\* Python `x in list`
InList(x, list) == \E i \in 1..Len(list) : list[i] = x

RECURSIVE Flatten(_)
\* concatenation of a list of lists, in order
Flatten(ss) == IF Len(ss) = 0 THEN <<>> ELSE Head(ss) \o Flatten(Tail(ss))

RECURSIVE Join(_, _)
\* sep.join(list)
Join(sep, list) ==
    IF Len(list) = 0 THEN ""
    ELSE IF Len(list) = 1 THEN list[1]
    ELSE list[1] \o sep \o Join(sep, Tail(list))

\* dict.get(k, default)
DictGet(d, k, default) == IF k \in DOMAIN d THEN d[k] ELSE default

Digit(n) == SubSeq("0123456789", n + 1, n + 1)

RECURSIVE NatToStr(_)
NatToStr(n) == IF n < 10 THEN Digit(n) ELSE NatToStr(n \div 10) \o Digit(n % 10)

\* str(int(x)) of an integer
IntToStr(n) == IF n < 0 THEN "-" \o NatToStr(-n) ELSE NatToStr(n)

-----------------------------------------------------------------------------
(* The records of the program and the data the model runs on *)

\* FamilyMember; calorie_target 0 stands for None.  age, preferences and
\* macro_targets are carried by the code but read by nothing modelled here.
FamilyMember(name, health_conditions, allergies, dietary_restrictions, dislikes, calorie_target) ==
    [name |-> name, health_conditions |-> health_conditions, allergies |-> allergies,
     dietary_restrictions |-> dietary_restrictions, dislikes |-> dislikes,
     calorie_target |-> calorie_target]

\* HouseholdProfile; members is the dict in insertion order
HouseholdProfile(household_id, cooking_time_max_minutes, members) ==
    [household_id |-> household_id, members |-> members,
     cooking_time_max_minutes |-> cooking_time_max_minutes]

Ing(name, amount, unit) == [name |-> name, amount |-> amount, unit |-> unit]

\* Recipe (pydantic); nutritional_info None is <<>>.  cuisine, instructions,
\* tags and suitable_for are carried by the code and read by nothing here.
Recipe(name, meal_type, cooking_time_minutes, servings, ingredients) ==
    [name |-> name, meal_type |-> meal_type, cooking_time_minutes |-> cooking_time_minutes,
     servings |-> servings, ingredients |-> ingredients, nutritional_info |-> <<>>]


\* the seven recipes of _generate_mock_recipe
MockScrambledEggs ==
    Recipe("Scrambled Eggs with Roasted Vegetables", "breakfast", 25, 4,
        << Ing("eggs", 8, "pieces"), Ing("bell pepper", 150, "grams"),
           Ing("onion", 100, "grams"), Ing("tomato", 150, "grams"),
           Ing("olive oil", 20, "ml"), Ing("potato", 300, "grams") >>)

MockOatmeal ==
    Recipe("Oatmeal with Fruits and Nuts", "breakfast", 15, 4,
        << Ing("oats", 300, "grams"), Ing("banana", 400, "grams"),
           Ing("blueberries", 200, "grams"), Ing("walnuts", 100, "grams"),
           Ing("honey", 60, "ml"), Ing("cinnamon", 5, "grams") >>)

MockOmelette ==
    Recipe("Vegetable Omelette with Potatoes", "breakfast", 20, 4,
        << Ing("eggs", 8, "pieces"), Ing("bell pepper", 150, "grams"),
           Ing("onion", 100, "grams"), Ing("tomato", 100, "grams"),
           Ing("potato", 300, "grams"), Ing("olive oil", 20, "ml") >>)

MockQuinoaBowl ==
    Recipe("Mediterranean Quinoa Bowl", "lunch", 30, 4,
        << Ing("quinoa", 300, "grams"), Ing("chickpeas", 400, "grams"),
           Ing("cherry tomatoes", 200, "grams"), Ing("cucumber", 150, "grams"),
           Ing("red onion", 100, "grams"), Ing("olive oil", 40, "ml"),
           Ing("lemon juice", 30, "ml"), Ing("feta cheese", 100, "grams") >>)

MockChickenSalad ==
    Recipe("Grilled Chicken Salad Bowl", "lunch", 30, 4,
        << Ing("chicken breast", 600, "grams"), Ing("mixed greens", 200, "grams"),
           Ing("cherry tomatoes", 200, "grams"), Ing("cucumber", 150, "grams"),
           Ing("quinoa", 200, "grams"), Ing("olive oil", 30, "ml"),
           Ing("lemon juice", 30, "ml") >>)

MockTofuStirFry ==
    Recipe("Vegetable Stir-Fry with Tofu", "dinner", 35, 4,
        << Ing("firm tofu", 400, "grams"), Ing("broccoli", 300, "grams"),
           Ing("bell pepper", 200, "grams"), Ing("carrot", 150, "grams"),
           Ing("snap peas", 200, "grams"), Ing("rice", 300, "grams"),
           Ing("soy sauce", 40, "ml"), Ing("sesame oil", 20, "ml"),
           Ing("garlic", 15, "grams"), Ing("ginger", 10, "grams") >>)

MockBakedSalmon ==
    Recipe("Baked Salmon with Roasted Vegetables", "dinner", 40, 4,
        << Ing("salmon", 600, "grams"), Ing("broccoli", 300, "grams"),
           Ing("sweet potato", 400, "grams"), Ing("carrot", 200, "grams"),
           Ing("olive oil", 40, "ml"), Ing("garlic", 20, "grams"),
           Ing("lemon", 2, "pieces") >>)

MockRecipes == {MockScrambledEggs, MockOatmeal, MockOmelette, MockQuinoaBowl,
                MockChickenSalad, MockTofuStirFry, MockBakedSalmon}

\* the recipes the modelled LLM answers with: of the meal type asked for, or
\* (the answer's "meal_type" is the LLM's) a dinner whatever was asked for
LLMRecipes(meal_type) ==
    { Recipe("Tofu Rice Bowl", "dinner", 20, 4,
          << Ing("Firm Tofu", 400, "grams"), Ing("rice", 300, "grams") >>),
      Recipe("Peanut Chicken Noodles", meal_type, 30, 4,
          << Ing("Roasted Peanuts", 100, "grams"), Ing("Chicken Breast", 500, "grams") >>),
      Recipe("Fruit Plate", meal_type, 5, 0,
          << Ing("banana", 200, "grams") >>) }

Bob   == FamilyMember("Bob", <<>>, <<"peanuts">>, <<>>, <<>>, 2000)
Alice == FamilyMember("Alice", <<>>, <<"peanuts">>, <<"Vegetarian">>, <<"Tofu">>, 0)
Carol == FamilyMember("Carol", <<"diabetes">>, <<"Peanut">>, <<"VEGETARIAN">>, <<>>, 1800)

\* ingredient lines and recipes handed to validate_recipe on its own
MaxIngredients == 2
MaxMembers == 2

TestIngredients ==
    { Ing("peanut butter", 50, "grams"), Ing("Roasted Peanuts", 100, "grams"),
      Ing("SALMON fillet", 400, "grams"), Ing("Chicken Breast", 500, "grams"),
      Ing("tofu", 400, "grams"), Ing("brown sugar", 30, "grams") }

TestRecipes ==
    UNION {{Recipe("Candidate", "dinner", 30, servings, ingredients) :
               ingredients \in [1..n -> TestIngredients], servings \in {0, 4}} :
              n \in 1..MaxIngredients}

TestMembers == {Bob, Alice, Carol}

\* rosters of distinct members, in the order they were added
TestRosters ==
    UNION {{ms \in [1..n -> TestMembers] : \A i, j \in 1..n : ms[i] = ms[j] => i = j} :
              n \in 1..MaxMembers}

-----------------------------------------------------------------------------
(* tools/family_profile_store.py and memory/session_manager.py *)


\* add_member: members[name] = member keeps the position of an existing key
AddMember(profile, member) ==
    IF \E i \in 1..Len(profile.members) : profile.members[i].name = member.name
    THEN [profile EXCEPT !.members =
            [i \in 1..Len(profile.members) |->
                IF profile.members[i].name = member.name THEN member ELSE profile.members[i]]]
    ELSE [profile EXCEPT !.members = Append(profile.members, member)]

\* get_household: None is modelled by the id being outside the domain
HasHousehold(profs, household_id) == household_id \in DOMAIN profs

\* the orders list(set) may give
Orderings(S) ==
    {q \in [1..Cardinality(S) -> S] : \A x \in S : \E i \in 1..Cardinality(S) : q[i] = x}

MemberUnion(household, field) ==
    UNION {{household.members[i][field][k] : k \in 1..Len(household.members[i][field])} :
              i \in 1..Len(household.members)}

\* FamilyProfileStore.get_all_constraints: the set unions, each turned into a
\* list; the results possible for a stored household
StoreGetAllConstraints(profs, household_id) ==
    LET household == profs[household_id]
    IN  {[allergies |-> a, dietary_restrictions |-> d, health_conditions |-> h, dislikes |-> x] :
            a \in Orderings(MemberUnion(household, "allergies")),
            d \in Orderings(MemberUnion(household, "dietary_restrictions")),
            h \in Orderings(MemberUnion(household, "health_conditions")),
            x \in Orderings(MemberUnion(household, "dislikes"))}

\* health_condition_mappings of _initialize_memory_structure
health_condition_mappings ==
    ("diabetes" :> [avoid |-> <<"sugar", "white bread", "candy", "soda">>,
                    prefer |-> <<"whole grains", "vegetables", "lean protein">>])
    @@ ("PCOS" :> [avoid |-> <<"refined carbs", "sugary foods">>,
                   prefer |-> <<"low-GI foods", "lean protein", "vegetables">>])
    @@ ("high blood pressure" :> [avoid |-> <<"salt", "processed foods", "fatty meats">>,
                                  prefer |-> <<"low sodium", "vegetables", "whole grains">>])
    @@ ("gluten intolerance" :> [avoid |-> <<"wheat", "barley", "rye">>,
                                 prefer |-> <<"rice", "quinoa", "gluten-free grains">>])

\* _initialize_memory_structure (the keys that are read or written here)
InitialMemory ==
    [historical_plans |-> <<>>,
     disliked_ingredients |-> <<>>,
     health_condition_mappings |-> health_condition_mappings]

\* get_health_condition_guidelines
GetHealthConditionGuidelines(mem, condition) ==
    DictGet(mem.health_condition_mappings, Lower(condition),
            [avoid |-> <<>>, prefer |-> <<>>])

\* get_disliked_ingredients
GetDislikedIngredients(mem, household_id) ==
    DictGet(mem.disliked_ingredients, household_id, <<>>)

\* ProfileManagerAgent.get_all_constraints: the store's lists, the guidelines
\* of each condition keyed by the condition as written, the remembered dislikes
GetAllConstraints(profs, mem, household_id) ==
    {[allergies |-> c.allergies,
      dietary_restrictions |-> c.dietary_restrictions,
      health_conditions |-> c.health_conditions,
      dislikes |-> c.dislikes,
      health_guidelines |->
          [k \in {c.health_conditions[i] : i \in 1..Len(c.health_conditions)} |->
              GetHealthConditionGuidelines(mem, k)],
      disliked_ingredients_memory |-> GetDislikedIngredients(mem, household_id)] :
        c \in StoreGetAllConstraints(profs, household_id)}

\* validate_profile_completeness without the check of the roster
ProfileErrorsNoRosterCheck(profs, household_id) ==
    IF ~HasHousehold(profs, household_id) THEN <<"Household profile not found">>
    ELSE IF profs[household_id].cooking_time_max_minutes <= 0
         THEN <<"Cooking time must be greater than 0">> ELSE <<>>

\* validate_profile_completeness: the errors list
ProfileErrors(profs, household_id) ==
    IF ~HasHousehold(profs, household_id) THEN <<"Household profile not found">>
    ELSE (IF Len(profs[household_id].members) = 0
          THEN <<"No family members added to household">> ELSE <<>>)
         \o (IF profs[household_id].cooking_time_max_minutes <= 0
             THEN <<"Cooking time must be greater than 0">> ELSE <<>>)

\* generate_planning_context raises ValueError for an unknown household
PlanningContextRaises(profs, household_id) == ~HasHousehold(profs, household_id)

\* generate_planning_context: the keys read by the generator and the validator
GeneratePlanningContext(profs, household_id) ==
    [household_id |-> household_id,
     members |-> profs[household_id].members,
     member_count |-> Len(profs[household_id].members),
     cooking_time_max |-> profs[household_id].cooking_time_max_minutes]

\* create_household followed by add_member calls
Household(household_id, cooking_time_max_minutes, members) ==
    LET RECURSIVE Add(_, _)
        Add(profile, ms) == IF Len(ms) = 0 THEN profile
                            ELSE Add(AddMember(profile, Head(ms)), Tail(ms))
    IN  Add(HouseholdProfile(household_id, cooking_time_max_minutes, <<>>), members)

\* one piece of the text json.dump writes to the profiles file: the head of a
\* household's record, one of its members, or the closing brace of the text
Piece(kind, household_id, cooking_time_max_minutes, member) ==
    [piece |-> kind, household_id |-> household_id,
     cooking_time_max_minutes |-> cooking_time_max_minutes, member |-> member]

\* profile.model_dump() of one household, as pieces
ModelDump(profile) ==
    <<Piece("household", profile.household_id, profile.cooking_time_max_minutes, <<>>)>>
    \o [i \in 1..Len(profile.members) |->
            Piece("member", profile.household_id, 0, profile.members[i])]

\* _save_profiles, lines 70-73: the whole text of the data dict
SavedText(profs) ==
    LET ids == CHOOSE q \in Orderings(DOMAIN profs) : TRUE
    IN  Flatten([i \in 1..Len(ids) |-> ModelDump(profs[ids[i]])]) \o <<Piece("end", "", 0, <<>>)>>

\* the stores _load_profiles may find on disk
StoredProfiles ==
    { ("h1" :> Household("h1", 45, <<Bob>>)),
      ("h1" :> Household("h1", 45, <<Alice, Bob>>)),
      ("h1" :> Household("h1", 45, <<>>)),
      ("h1" :> Household("h1", 0, <<Bob>>)) }

HouseholdIds == {"h1", "h2"}

-----------------------------------------------------------------------------
(* tools/nutrition_lookup.py: NutritionLookupTool, with no USDA API key       *)
(* configured (config.USDA_API_KEY defaults to ""), so every search_food      *)
(* is answered from the fallback table.  Table values are per 100 g, kept in  *)
(* tenths; a looked-up amount is kept in thousandths, which is exact.         *)

NutrientFields == {"calories", "protein_g", "carbs_g", "fat_g", "fiber_g", "sugar_g", "sodium_mg"}

Nutrients(cal, protein, carbs, fat, fiber) ==
    [calories |-> cal, protein_g |-> protein, carbs_g |-> carbs, fat_g |-> fat,
     fiber_g |-> fiber, sugar_g |-> 0, sodium_mg |-> 0]

\* fallback_db of _get_fallback_data, in dict order
fallback_db ==
    << [key |-> "chicken",   data |-> Nutrients(1650, 310,   0,   36,   0)],
       [key |-> "rice",      data |-> Nutrients(1300,  27, 280,    3,   4)],
       [key |-> "broccoli",  data |-> Nutrients( 340,  28,  70,    4,  26)],
       [key |-> "salmon",    data |-> Nutrients(2080, 200,   0,  130,   0)],
       [key |-> "egg",       data |-> Nutrients(1550, 130,  11,  110,   0)],
       [key |-> "olive oil", data |-> Nutrients(8840,   0,   0, 1000,   0)],
       [key |-> "tomato",    data |-> Nutrients( 180,   9,  39,    2,  12)],
       [key |-> "spinach",   data |-> Nutrients( 230,  29,  36,    4,  22)],
       [key |-> "potato",    data |-> Nutrients( 770,  20, 170,    1,  21)],
       [key |-> "beef",      data |-> Nutrients(2500, 260,   0,  150,   0)] >>

GenericFallback == Nutrients(1000, 50, 150, 30, 20)

\* _get_fallback_data: first key that contains, or is contained in, the name
GetFallbackData(ingredient) ==
    LET low  == Lower(ingredient)
        hits == {i \in 1..Len(fallback_db) :
                    Contains(fallback_db[i].key, low) \/ Contains(low, fallback_db[i].key)}
    IN  IF hits = {} THEN GenericFallback
        ELSE fallback_db[CHOOSE i \in hits : \A j \in hits : i <= j].data

\* search_food without an API key
SearchFood(query) == GetFallbackData(query)

\* lookup: the table value scaled by amount_grams / 100 (result in thousandths)
Lookup(ingredient, amount_grams) ==
    [f \in NutrientFields |-> SearchFood(ingredient)[f] * amount_grams]

\* With a USDA API key, search_food asks the API unless the cache answers.
\* The food of a search that found one is kept per 100 g, in tenths.
UsdaFood ==
    [calories |-> 1200, protein_g |-> 100, carbs_g |-> 50, fat_g |-> 60,
     fiber_g |-> 10, sugar_g |-> 20, sodium_mg |-> 700]

\* what the request to the API can do: answer with a food, answer with a
\* food that is an empty object ("foods": [{}]), answer with no food, raise
\* (timeout, HTTP error, malformed answer)
ApiOutcomes == {"found", "empty_food", "not_found", "error"}

\* the food data lookup cannot use: `if not food_data` raises ValueError
EmptyFood == <<>>

\* lookup raises on this food data
LookupRaises(food_data) == DOMAIN food_data = {}

\* search_food: the food data it returns and the cache it leaves
SearchFoodCached(key, store, query, api) ==
    IF Lower(query) \in DOMAIN store
    THEN [food |-> store[Lower(query)], cache |-> store]
    ELSE IF key = "" THEN [food |-> GetFallbackData(query), cache |-> store]
    ELSE IF api = "found"
    THEN [food |-> UsdaFood, cache |-> (Lower(query) :> UsdaFood) @@ store]
    ELSE IF api = "empty_food"
    THEN [food |-> EmptyFood, cache |-> (Lower(query) :> EmptyFood) @@ store]
    ELSE [food |-> GetFallbackData(query), cache |-> store]

RECURSIVE SearchAll(_, _, _, _)
\* the search_food calls of one calculate_recipe_nutrition, in the order of
\* the ingredient lines ("pieces" lines are skipped and search nothing):
\* the food data of each line and the cache after the last
SearchAll(key, store, ingredients, apis) ==
    IF Len(ingredients) = 0 THEN [foods |-> <<>>, cache |-> store]
    ELSE LET ing  == Head(ingredients)
             here == IF ing.unit = "pieces" THEN [food |-> <<>>, cache |-> store]
                     ELSE SearchFoodCached(key, store, ing.name, Head(apis))
             rest == SearchAll(key, here.cache, Tail(ingredients), Tail(apis))
         IN  [foods |-> <<here.food>> \o rest.foods, cache |-> rest.cache]

-----------------------------------------------------------------------------
(* agents/nutrition_compliance.py: NutritionComplianceAgent *)

\* round(n / d, 0) of Python 3: to nearest, ties to even; n >= 0, d > 0
RoundHalfEven(n, d) ==
    LET q == n \div d
        r == n % d
    IN  IF 2 * r < d THEN q
        ELSE IF 2 * r > d THEN q + 1
        ELSE IF q % 2 = 0 THEN q ELSE q + 1

RECURSIVE SumNutrition(_, _)
\* the loop of calculate_recipe_nutrition: "pieces" lines are skipped, every
\* other line is looked up (ml counted as grams); totals in thousandths
SumNutrition(ingredients, f) ==
    IF Len(ingredients) = 0 THEN 0
    ELSE LET ing == Head(ingredients)
             here == IF ing.unit = "pieces" THEN 0
                     ELSE Lookup(ing.name, ing.amount)[f]
         IN  here + SumNutrition(Tail(ingredients), f)

\* recipe.get("servings", 4)
Servings(r) == DictGet(r, "servings", 4)

\* value / servings raises ZeroDivisionError
NutritionRaises(r) == Servings(r) = 0

\* calculate_recipe_nutrition: per serving, rounded to 2 decimals (in hundredths)
CalculateRecipeNutrition(r) ==
    [f \in NutrientFields |-> RoundHalfEven(SumNutrition(r.ingredients, f), 10 * Servings(r))]

RECURSIVE SumNutritionFromUntilFailure(_, _, _)
\* the loop of calculate_recipe_nutrition left at the first lookup that raises
SumNutritionFromUntilFailure(ingredients, foods, f) ==
    IF Len(ingredients) = 0 THEN 0
    ELSE LET ing == Head(ingredients)
         IN  IF ing.unit = "pieces"
             THEN SumNutritionFromUntilFailure(Tail(ingredients), Tail(foods), f)
             ELSE IF LookupRaises(Head(foods)) THEN 0
             ELSE Head(foods)[f] * ing.amount
                  + SumNutritionFromUntilFailure(Tail(ingredients), Tail(foods), f)

RECURSIVE SumNutritionFrom(_, _, _)
\* the loop of calculate_recipe_nutrition over the food data search_food
\* returned for each line; lookup scales it by amount_grams / 100; a lookup
\* that raises is logged by the except clause and the loop goes on
SumNutritionFrom(ingredients, foods, f) ==
    IF Len(ingredients) = 0 THEN 0
    ELSE LET ing == Head(ingredients)
             here == IF ing.unit = "pieces" THEN 0
                     ELSE IF LookupRaises(Head(foods)) THEN 0
                     ELSE Head(foods)[f] * ing.amount
         IN  here + SumNutritionFrom(Tail(ingredients), Tail(foods), f)

\* calculate_recipe_nutrition over the food data search_food returned
CalculateRecipeNutritionFrom(r, foods) ==
    [f \in NutrientFields |->
        RoundHalfEven(SumNutritionFrom(r.ingredients, foods, f), 10 * Servings(r))]

\* check_allergens
CheckAllergens(r, allergies) ==
    Flatten([i \in 1..Len(r.ingredients) |->
        Flatten([a \in 1..Len(allergies) |->
            IF Contains(Lower(allergies[a]), Lower(r.ingredients[i].name))
            THEN << allergies[a] \o " (found in " \o r.ingredients[i].name \o ")" >>
            ELSE <<>> ])])

\* restriction_patterns of check_dietary_restrictions
restriction_patterns ==
    [vegan |-> <<"meat", "chicken", "beef", "pork", "fish", "egg", "milk", "cheese",
                 "butter", "cream", "yogurt">>,
     vegetarian |-> <<"meat", "chicken", "beef", "pork", "fish", "salmon">>,
     keto |-> <<"rice", "pasta", "bread", "potato", "sugar">>]
    @@ ("gluten-free" :> <<"wheat", "bread", "pasta", "flour", "barley", "rye">>)
    @@ ("dairy-free" :> <<"milk", "cheese", "butter", "cream", "yogurt">>)
    @@ ("low-carb" :> <<"rice", "pasta", "bread", "potato">>)

\* check_dietary_restrictions with the restriction looked up as written
CheckDietaryRestrictionsCaseSensitive(r, restrictions) ==
    Flatten([k \in 1..Len(restrictions) |->
        IF restrictions[k] \in DOMAIN restriction_patterns
        THEN LET forbidden == restriction_patterns[restrictions[k]]
             IN  Flatten([i \in 1..Len(r.ingredients) |->
                    IF \E j \in 1..Len(forbidden) :
                          Contains(forbidden[j], Lower(r.ingredients[i].name))
                    THEN << restrictions[k] \o " restriction violated: contains "
                               \o r.ingredients[i].name >>
                    ELSE <<>> ])
        ELSE <<>> ])

\* check_dietary_restrictions: one violation per restriction and ingredient
\* that contains a forbidden term
CheckDietaryRestrictions(r, restrictions) ==
    Flatten([k \in 1..Len(restrictions) |->
        IF Lower(restrictions[k]) \in DOMAIN restriction_patterns
        THEN LET forbidden == restriction_patterns[Lower(restrictions[k])]
             IN  Flatten([i \in 1..Len(r.ingredients) |->
                    IF \E j \in 1..Len(forbidden) :
                          Contains(forbidden[j], Lower(r.ingredients[i].name))
                    THEN << restrictions[k] \o " restriction violated: contains "
                               \o r.ingredients[i].name >>
                    ELSE <<>> ])
        ELSE <<>> ])

NoGuidelines == [avoid |-> <<>>, prefer |-> <<>>]

\* check_health_conditions, the violations
HealthViolations(r, health_conditions, health_guidelines) ==
    Flatten([c \in 1..Len(health_conditions) |->
        LET avoid == DictGet(health_guidelines, Lower(health_conditions[c]), NoGuidelines).avoid
        IN  Flatten([i \in 1..Len(r.ingredients) |->
                Flatten([j \in 1..Len(avoid) |->
                    IF Contains(Lower(avoid[j]), Lower(r.ingredients[i].name))
                    THEN << health_conditions[c] \o ": should avoid " \o r.ingredients[i].name >>
                    ELSE <<>> ])])])

\* check_health_conditions, the warnings
HealthWarnings(r, health_conditions, health_guidelines) ==
    Flatten([c \in 1..Len(health_conditions) |->
        LET prefer == DictGet(health_guidelines, Lower(health_conditions[c]), NoGuidelines).prefer
            has_preferred ==
                \E i \in 1..Len(r.ingredients) : \E j \in 1..Len(prefer) :
                    Contains(Lower(prefer[j]), Lower(r.ingredients[i].name))
        IN  IF ~has_preferred /\ Len(prefer) > 0
            THEN << health_conditions[c] \o ": consider adding "
                       \o Join(", ", SubSeq(prefer, 1, IF Len(prefer) < 3 THEN Len(prefer) ELSE 3)) >>
            ELSE <<>> ])

\* meal_percentages of check_calorie_targets, in hundredths
MealPct(meal_type) ==
    CASE meal_type = "breakfast" -> 25
      [] meal_type = "lunch"     -> 35
      [] meal_type = "dinner"    -> 40
      [] OTHER                   -> 33

\* check_calorie_targets; calorie_target 0 stands for None (both are falsy)
CheckCalorieTargets(nutrition, members, meal_type) ==
    LET calories == nutrition.calories
    IN  Flatten([m \in 1..Len(members) |->
            LET target   == members[m].calorie_target
                expected == target * MealPct(meal_type)
                diff     == IF calories >= expected THEN calories - expected
                            ELSE expected - calories
            IN  IF target # 0 /\ 10 * diff > 3 * expected
                THEN IF calories > expected
                     THEN << members[m].name \o ": " \o meal_type \o " is "
                                \o IntToStr((calories - expected) \div 100)
                                \o " calories over target ("
                                \o IntToStr(expected \div 100) \o " expected)" >>
                     ELSE << members[m].name \o ": " \o meal_type \o " is "
                                \o IntToStr((expected - calories) \div 100)
                                \o " calories under target ("
                                \o IntToStr(expected \div 100) \o " expected)" >>
                ELSE <<>> ])

\* the exception validate_recipe ends with instead of a result
ValidationRaised == [raised |-> TRUE, is_compliant |-> FALSE, violations |-> <<>>,
                     warnings |-> <<>>, nutritional_summary |-> <<>>,
                     recommendations |-> <<>>]

\* validate_recipe with a result that is compliant only when it has neither
\* a violation nor a warning
ValidateRecipeWarningsBlock(r, context, cons, nutrition) ==
    IF NutritionRaises(r) THEN ValidationRaised
    ELSE
    LET found == CheckAllergens(r, cons.allergies)
        violations ==
            [i \in 1..Len(found) |-> "ALLERGEN ALERT: " \o found[i]]
            \o CheckDietaryRestrictions(r, cons.dietary_restrictions)
            \o HealthViolations(r, cons.health_conditions, cons.health_guidelines)
        warnings ==
            HealthWarnings(r, cons.health_conditions, cons.health_guidelines)
            \o CheckCalorieTargets(nutrition, context.members, r.meal_type)
            \o (IF nutrition.sodium_mg > 80000
                THEN <<"High sodium content - consider reducing salt">> ELSE <<>>)
        recommendations ==
            (IF nutrition.protein_g < 1500
             THEN <<"Consider adding more protein sources">> ELSE <<>>)
            \o (IF nutrition.fiber_g < 500
                THEN <<"Consider adding more fiber-rich ingredients">> ELSE <<>>)
    IN  [raised |-> FALSE,
         is_compliant |-> (Len(violations) = 0 /\ Len(warnings) = 0),
         violations |-> violations,
         warnings |-> warnings,
         nutritional_summary |-> nutrition,
         recommendations |-> recommendations]

\* validate_recipe; nutrition is calculated first, so its exception comes
\* before every check
ValidateRecipeFrom(r, context, cons, nutrition) ==
    IF NutritionRaises(r) THEN ValidationRaised
    ELSE
    LET found == CheckAllergens(r, cons.allergies)
        violations ==
            [i \in 1..Len(found) |-> "ALLERGEN ALERT: " \o found[i]]
            \o CheckDietaryRestrictions(r, cons.dietary_restrictions)
            \o HealthViolations(r, cons.health_conditions, cons.health_guidelines)
        warnings ==
            HealthWarnings(r, cons.health_conditions, cons.health_guidelines)
            \o CheckCalorieTargets(nutrition, context.members, r.meal_type)
            \o (IF nutrition.sodium_mg > 80000
                THEN <<"High sodium content - consider reducing salt">> ELSE <<>>)
        recommendations ==
            (IF nutrition.protein_g < 1500
             THEN <<"Consider adding more protein sources">> ELSE <<>>)
            \o (IF nutrition.fiber_g < 500
                THEN <<"Consider adding more fiber-rich ingredients">> ELSE <<>>)
    IN  [raised |-> FALSE,
         is_compliant |-> (Len(violations) = 0),
         violations |-> violations,
         warnings |-> warnings,
         nutritional_summary |-> nutrition,
         recommendations |-> recommendations]

\* validate_recipe with no API key and an empty cache: every food is the
\* fallback table's
ValidateRecipeChecks(r, context, cons) ==
    ValidateRecipeFrom(r, context, cons,
        IF NutritionRaises(r) THEN <<>> ELSE CalculateRecipeNutrition(r))

MealTypes == <<"breakfast", "lunch", "dinner">>

\* the validate_recipe calls of the stored households on the recipes the
\* generator returns
KnownValidations ==
    UNION {{<<r, GeneratePlanningContext(p, h), c>> :
               r \in MockRecipes \cup UNION {LLMRecipes(MealTypes[m]) : m \in 1..Len(MealTypes)},
               c \in GetAllConstraints(p, InitialMemory, h)} :
              p \in StoredProfiles, h \in {"h1"}}

\* validate_recipe of the known calls, computed once
ValidateMemo == [k \in KnownValidations |-> ValidateRecipeChecks(k[1], k[2], k[3])]

ValidateRecipe(r, context, cons) ==
    IF <<r, context, cons>> \in DOMAIN ValidateMemo THEN ValidateMemo[<<r, context, cons>>]
    ELSE ValidateRecipeChecks(r, context, cons)

Bullets(list) == [i \in 1..Len(list) |-> "  - " \o list[i]]

\* generate_feedback
GenerateFeedback(v) ==
    IF v.is_compliant THEN "Recipe is compliant with all requirements."
    ELSE Join("\n",
            (IF Len(v.violations) > 0 THEN <<"CRITICAL ISSUES:">> \o Bullets(v.violations) ELSE <<>>)
            \o (IF Len(v.warnings) > 0 THEN <<"\nWARNINGS:">> \o Bullets(v.warnings) ELSE <<>>)
            \o (IF Len(v.recommendations) > 0
                THEN <<"\nRECOMMENDATIONS:">> \o Bullets(v.recommendations) ELSE <<>>))

-----------------------------------------------------------------------------
(* agents/recipe_generator.py: RecipeGeneratorAgent *)

\* _generate_mock_recipe
GenerateMockRecipe(meal_type, context, cons) ==
    LET restrictions == [i \in 1..Len(cons.dietary_restrictions) |->
                            Lower(cons.dietary_restrictions[i])]
        is_vegetarian == InList("vegetarian", restrictions) \/ InList("vegan", restrictions)
        is_gluten_free == InList("gluten-free", restrictions)
    IN  IF meal_type = "breakfast" THEN
            IF is_gluten_free /\ ~is_vegetarian THEN MockScrambledEggs
            ELSE IF is_vegetarian THEN MockOatmeal
            ELSE MockOmelette
        ELSE IF meal_type = "lunch" THEN
            IF is_vegetarian THEN MockQuinoaBowl ELSE MockChickenSalad
        ELSE
            IF is_vegetarian THEN MockTofuStirFry ELSE MockBakedSalmon

\* What the Gemini call of generate_recipe can do:
\*   unavailable  use_gemini is false, no call is made (the only case then)
\*   api_error    generate_content raises
\*   not_json     the text does not parse (json.JSONDecodeError)
\*   not_object   the text parses to something that is no dict (.get raises)
\*   bad_fields   a dict that lacks or mistypes fields of Recipe
\*   recipe       a dict with the fields of Recipe
LLMFailureKinds == {"unavailable", "api_error", "not_json", "not_object"}

LLMFailure(kind) == [kind |-> kind, data |-> <<>>]

LLMOutcomes(gemini, meal_type) ==
    IF ~gemini THEN {LLMFailure("unavailable")}
    ELSE {LLMFailure(k) : k \in (LLMFailureKinds \ {"unavailable"}) \cup {"bad_fields"}}
         \cup {[kind |-> "recipe", data |-> r] : r \in LLMRecipes(meal_type)}

\* generate_recipe: the try block recovers the API error, the JSON error and
\* the non-dict answer with the mock recipe; Recipe(**recipe_data) comes after
\* the try block
GenerateRecipe(meal_type, context, cons, llm) ==
    IF llm.kind \in LLMFailureKinds
    THEN [raised |-> FALSE, recipe |-> GenerateMockRecipe(meal_type, context, cons)]
    ELSE IF llm.kind = "bad_fields"
    THEN [raised |-> TRUE, recipe |-> <<>>]
    ELSE [raised |-> FALSE, recipe |-> llm.data]

\* regenerate_recipe: generate_recipe for the original recipe's meal type,
\* the feedback going into the prompt only
RegenerateRecipe(original_recipe, feedback, context, cons, llm) ==
    GenerateRecipe(original_recipe.meal_type, context, cons, llm)

-----------------------------------------------------------------------------
(* memory/session_manager.py: MemoryBank.store_meal_plan *)

\* "Keep only last 10 plans per household"
KeepPlans == 10

RECURSIVE RemoveFirst(_, _)
\* list.remove(x): the first element equal to x goes
RemoveFirst(list, x) ==
    IF Len(list) = 0 THEN list
    ELSE IF Head(list) = x THEN Tail(list)
    ELSE <<Head(list)>> \o RemoveFirst(Tail(list), x)

RECURSIVE RemoveAll(_, _)
RemoveAll(list, olds) ==
    IF Len(olds) = 0 THEN list ELSE RemoveAll(RemoveFirst(list, Head(olds)), Tail(olds))

\* the plans of every household taken for household_plans
SelectSeqOfAll(list, household_id) == list

SelectSeqBy(list, household_id) ==
    LET Mine(p) == p.household_id = household_id IN SelectSeq(list, Mine)

\* store_meal_plan appending the plan itself in place of plan_entry
StoreMealPlanBarePlan(mem, household_id, plan) ==
    LET appended == Append(mem.historical_plans, plan)
        household_plans == SelectSeqBy(appended, household_id)
        kept == IF Len(household_plans) > KeepPlans
                THEN RemoveAll(appended,
                               SubSeq(household_plans, 1, Len(household_plans) - KeepPlans))
                ELSE appended
    IN  [mem EXCEPT !.historical_plans = kept]

\* store_meal_plan (created_at, a wall-clock stamp, is left out of the entry)
StoreMealPlan(mem, household_id, plan) ==
    LET appended == Append(mem.historical_plans, [household_id |-> household_id, plan |-> plan])
        household_plans == SelectSeqBy(appended, household_id)
        kept == IF Len(household_plans) > KeepPlans
                THEN RemoveAll(appended,
                               SubSeq(household_plans, 1, Len(household_plans) - KeepPlans))
                ELSE appended
    IN  [mem EXCEPT !.historical_plans = kept]

-----------------------------------------------------------------------------
(* agents/schedule_optimizer.py: ScheduleOptimizerAgent.  A quotient of two  *)
(* integers is kept as the pair [n, d] it is the value of.                   *)

\* day_time with the longest meal of the day in place of the sum
DayTimeLongestMeal(day) ==
    LET times == {day.meals[i].cooking_time_minutes : i \in 1..Len(day.meals)}
    IN  IF times = {} THEN 0 ELSE CHOOSE t \in times : \A u \in times : u <= t

\* day_time = sum(meal.get("cooking_time_minutes", 0) for meal in day.get("meals", []))
DayTime(day) ==
    LET RECURSIVE Sum(_)
        Sum(meals) == IF Len(meals) = 0 THEN 0
                      ELSE Head(meals).cooking_time_minutes + Sum(Tail(meals))
    IN  Sum(day.meals)

\* analyze_cooking_times: the loop over the days, then the statistics;
\* min_time starts at float('inf'), kept here as <<>>, a number m as <<m>>
AnalyzeCookingTimes(plan) ==
    LET RECURSIVE Loop(_, _)
        Loop(days, acc) ==
            IF Len(days) = 0 THEN acc
            ELSE LET day_time == DayTime(Head(days))
                 IN  Loop(Tail(days),
                          [daily_times |-> Append(acc.daily_times, day_time),
                           total_time  |-> acc.total_time + day_time,
                           max_time    |-> IF day_time > acc.max_time THEN day_time
                                           ELSE acc.max_time,
                           min_time    |-> IF acc.min_time = <<>> THEN <<day_time>>
                                           ELSE IF day_time < acc.min_time[1]
                                           THEN <<day_time>>
                                           ELSE acc.min_time])
        end == Loop(plan, [daily_times |-> <<>>, total_time |-> 0, max_time |-> 0,
                           min_time |-> <<>>])
    IN  [total_minutes   |-> end.total_time,
         average_per_day |-> IF Len(plan) > 0 THEN [n |-> end.total_time, d |-> Len(plan)]
                             ELSE [n |-> 0, d |-> 1],
         max_day         |-> end.max_time,
         min_day         |-> IF end.min_time # <<>> THEN end.min_time[1] ELSE 0,
         daily_times     |-> end.daily_times]

\* calculate_optimization_score; ingredient_reuse is kept as the list of its
\* counts.  The result is the score as a quotient, or the ZeroDivisionError
\* of line 270.
CalculateOptimizationScore(cooking_time_stats, ingredient_reuse, cooking_time_max) ==
    LET avg_time == cooking_time_stats.average_per_day
        over == avg_time.n > cooking_time_max * avg_time.d
    IN  IF over /\ cooking_time_max = 0
        THEN [raised |-> TRUE, n |-> 0, d |-> 1]
        ELSE
        LET \* min(time_penalty, 30), time_penalty = (avg - max) / max * 30
            excess == 30 * (avg_time.n - cooking_time_max * avg_time.d)
            limit  == cooking_time_max * avg_time.d
            penalty == IF ~over THEN [n |-> 0, d |-> 1]
                       ELSE IF excess < 30 * limit THEN [n |-> excess, d |-> limit]
                       ELSE [n |-> 30, d |-> 1]
            max_time == cooking_time_stats.max_day
            min_time == cooking_time_stats.min_day
            \* time_variance = (max_time - min_time) / max_time > 0.5
            uneven == max_time > 0 /\ 2 * (max_time - min_time) > max_time
            reused_ingredients ==
                Cardinality({i \in 1..Len(ingredient_reuse) : ingredient_reuse[i] >= 2})
            total_unique == Len(ingredient_reuse)
            reward == IF total_unique > 0
                      THEN [n |-> 15 * reused_ingredients, d |-> total_unique]
                      ELSE [n |-> 0, d |-> 1]
            d == penalty.d * reward.d
            n == 100 * d - penalty.n * reward.d - (IF uneven THEN 15 * d ELSE 0)
                 + reward.n * penalty.d
        IN  \* max(0.0, min(100.0, score))
            IF n > 100 * d THEN [raised |-> FALSE, n |-> 100, d |-> 1]
            ELSE IF n < 0 THEN [raised |-> FALSE, n |-> 0, d |-> 1]
            ELSE [raised |-> FALSE, n |-> n, d |-> d]

\* the meals of a plan, each with the number of its day, in plan order
MealsOf(plan) ==
    Flatten([d \in 1..Len(plan) |->
        [m \in 1..Len(plan[d].meals) |-> [day |-> d, meal |-> plan[d].meals[m]]]])

RECURSIVE CountKeys(_, _)
\* a dict of counts filled key by key: the keys in the order of their first
\* occurrence, each with the number of its occurrences
CountKeys(keys, counted) ==
    IF Len(keys) = 0 THEN counted
    ELSE LET k == Head(keys)
             IsK(e) == e.key = k
         IN  CountKeys(Tail(keys),
                 IF SelectSeq(counted, IsK) = <<>>
                 THEN Append(counted, [key |-> k, count |-> 1])
                 ELSE [i \in 1..Len(counted) |->
                          IF counted[i].key = k
                          THEN [counted[i] EXCEPT !.count = @ + 1] ELSE counted[i]])

\* analyze_ingredient_reuse
AnalyzeIngredientReuse(plan) ==
    LET meals == MealsOf(plan)
    IN  CountKeys(Flatten([m \in 1..Len(meals) |->
                     [i \in 1..Len(meals[m].meal.ingredients) |->
                         Lower(meals[m].meal.ingredients[i].name)]]), <<>>)

\* proteins of suggest_batch_cooking
Proteins == <<"chicken", "beef", "pork", "fish", "salmon", "tofu">>

\* suggest_batch_cooking, lines 184-196: one entry of meal_groups for every
\* ingredient line with a protein in its name, under the first such protein
\* (the break leaves the loop over the proteins)
MealGroupKeys(plan) ==
    LET meals == MealsOf(plan)
    IN  Flatten([m \in 1..Len(meals) |->
            Flatten([i \in 1..Len(meals[m].meal.ingredients) |->
                LET ing_name == Lower(meals[m].meal.ingredients[i].name)
                    hits == {p \in 1..Len(Proteins) : Contains(Proteins[p], ing_name)}
                IN  IF hits = {} THEN <<>>
                    ELSE << [protein |-> Proteins[CHOOSE p \in hits : \A q \in hits : p <= q],
                             day |-> meals[m].day] >> ])])

\* suggest_batch_cooking
SuggestBatchCooking(plan, ingredient_reuse) ==
    LET Frequent(e) == e.count >= 3
        frequent == SelectSeq(ingredient_reuse, Frequent)
        entries == MealGroupKeys(plan)
        groups == CountKeys([e \in 1..Len(entries) |-> entries[e].protein], <<>>)
        DaysOf(protein) ==
            LET Of(e) == e.protein = protein
                mine == SelectSeq(entries, Of)
            IN  [e \in 1..Len(mine) |-> "Day " \o IntToStr(mine[e].day)]
    IN  (IF Len(frequent) > 0
         THEN << "Consider batch cooking: "
                    \o Join(", ", [e \in 1..(IF Len(frequent) < 5 THEN Len(frequent) ELSE 5) |->
                                      frequent[e].key]) >>
         ELSE <<>>)
        \o Flatten([g \in 1..Len(groups) |->
               IF groups[g].count >= 2
               THEN << "Batch cook " \o groups[g].key \o " for "
                          \o Join(", ", DaysOf(groups[g].key)) \o " to save time" >>
               ELSE <<>> ])

-----------------------------------------------------------------------------
(* orchestrator.py: MealPlanOrchestrator *)

MaxDays == 1
MaxRetries == 2

NoRequest == [household_id |-> "", days |-> 0, max_retries |-> 0]
NoOutcome == [kind |-> "none", error |-> "", plan |-> <<>>]
NoSlotLog == [day |-> 0, meal_type |-> "", calls |-> <<>>, status |-> "none", accepted |-> 0]
NoTrace   == [source_called |-> FALSE, validated |-> FALSE, all_violating |-> TRUE,
              slots |-> <<>>, exhausted |-> {}]

Idle ==
    /\ pc = "idle"
    /\ request = NoRequest
    /\ planning_context = <<>>
    /\ constraints = <<>>
    /\ weekly_plan = <<>>
    /\ day_meals = <<>>
    /\ day_num = 0
    /\ meal_idx = 0
    /\ attempt = 0
    /\ recipe = <<>>
    /\ validation = <<>>
    /\ outcome = NoOutcome
    /\ slot_log = NoSlotLog
    /\ trace = NoTrace

\* no USDA API key is configured (config.USDA_API_KEY defaults to ""), nothing
\* is writing to the profile store, no operation is called on its own
Quiet ==
    /\ api_key = ""
    /\ cache = <<>>
    /\ storage_file = SavedText(profiles)
    /\ writers = <<>>
    /\ called = [op |-> "none"]
    /\ returned = <<>>

Init ==
    /\ profiles \in StoredProfiles
    /\ memory = InitialMemory
    /\ use_gemini \in BOOLEAN
    /\ Idle
    /\ Quiet

Raise(error) ==
    /\ pc' = "raised"
    /\ outcome' = [kind |-> "raised", error |-> error, plan |-> <<>>]

\* validate_profile_completeness, "valid"
ProfileValid(profs, household_id) == Len(ProfileErrors(profs, household_id)) = 0

\* generate_complete_meal_plan, lines 59-73: context, constraints, the
\* completeness check, the empty plan
RequestPlan(household_id, days, max_retries) ==
    /\ pc = "idle"
    /\ request' = [household_id |-> household_id, days |-> days, max_retries |-> max_retries]
    /\ IF PlanningContextRaises(profiles, household_id)
       THEN /\ Raise("ValueError: Household not found")
            /\ UNCHANGED <<planning_context, constraints, weekly_plan, day_meals,
                           day_num, meal_idx, attempt>>
       ELSE /\ planning_context' = GeneratePlanningContext(profiles, household_id)
            /\ constraints' \in GetAllConstraints(profiles, memory, household_id)
            /\ IF ~ProfileValid(profiles, household_id)
               THEN /\ Raise("ValueError: Household profile incomplete: "
                                \o Join(", ", ProfileErrors(profiles, household_id)))
                    /\ UNCHANGED <<weekly_plan, day_meals, day_num, meal_idx, attempt>>
               ELSE /\ weekly_plan' = <<>>
                    /\ attempt' = 0
                    /\ IF days >= 1
                       THEN /\ day_num' = 1
                            /\ meal_idx' = 1
                            /\ day_meals' = [day |-> 1, meals |-> <<>>]
                            /\ pc' = "generate"
                       ELSE /\ pc' = "finish"
                            /\ UNCHANGED <<day_num, meal_idx, day_meals>>
                    /\ UNCHANGED outcome
    /\ UNCHANGED <<api_key, cache, storage_file, writers, called, returned>>
    /\ UNCHANGED <<profiles, memory, use_gemini, recipe, validation, slot_log, trace>>

\* regenerate_recipe, lines 572-577: the text passed to generate_recipe as
\* additional_requirements
AdditionalRequirements(original_recipe, feedback) ==
    "\nPrevious recipe \"" \o original_recipe.name \o "\" had issues:\n" \o feedback
        \o "\n\nPlease generate a NEW recipe that addresses these issues.\n"

\* additional_requirements = None of generate_recipe
NoRequirements == ""

CallRecord(by, additional_requirements, llm, result) ==
    [by |-> by, additional_requirements |-> additional_requirements, llm |-> llm.kind,
     raised |-> result.raised, recipe |-> result.recipe, validated |-> FALSE]

\* history: a call of generate_recipe for the slot being planned
NoteCall(first, by, additional_requirements, llm, result) ==
    /\ slot_log' =
          IF first
          THEN [day |-> day_num, meal_type |-> MealTypes[meal_idx],
                calls |-> <<CallRecord(by, additional_requirements, llm, result)>>,
                status |-> "open", accepted |-> 0]
          ELSE [slot_log EXCEPT !.calls = Append(@, CallRecord(by, additional_requirements, llm, result))]
    /\ trace' = [trace EXCEPT
          !.source_called = TRUE,
          !.slots = IF first THEN Append(@, <<day_num, MealTypes[meal_idx]>>) ELSE @,
          !.all_violating =
              /\ @
              /\ ~result.raised
              /\ LET v == ValidateRecipe(result.recipe, planning_context, constraints)
                 IN  ~v.raised /\ ~v.is_compliant]

\* _generate_validated_recipe, lines 156-165: the loop's generate_recipe call
GenerateCall(llm) ==
    /\ LET result == GenerateRecipe(MealTypes[meal_idx], planning_context, constraints, llm)
       IN  /\ NoteCall(attempt = 0, "generate_recipe", NoRequirements, llm, result)
           /\ IF result.raised
              THEN /\ Raise("pydantic.ValidationError")
                   /\ UNCHANGED recipe
              ELSE /\ recipe' = result.recipe
                   /\ pc' = "validate"
                   /\ UNCHANGED outcome
    /\ UNCHANGED <<api_key, cache, storage_file, writers, called, returned>>
    /\ UNCHANGED <<profiles, memory, use_gemini, request, planning_context, constraints, weekly_plan,
                   day_meals, day_num, meal_idx, attempt, validation>>

GenerateStep ==
    /\ pc = "generate"
    /\ \E llm \in LLMOutcomes(use_gemini, MealTypes[meal_idx]) : GenerateCall(llm)

\* line 174: `if validation.is_compliant` with the check left out
AcceptsAnyResult(v) == TRUE

\* line 174: `if validation.is_compliant`
Accepts(v) == v.is_compliant

\* a retry that is granted whatever the attempt count
RetryLeftAlways(tried, max_retries) == TRUE

\* line 194: `if attempt < max_retries - 1`, which is also whether
\* range(max_retries) of line 156 has a further round
RetryLeft(tried, max_retries) == tried < max_retries - 1

\* the meal's recipe, or None, is back in generate_complete_meal_plan (lines
\* 87-96): the day's list grows by an accepted recipe, the day is appended
\* after its third slot, the loops go on
SlotReturns(meals) ==
    IF meal_idx < Len(MealTypes)
    THEN /\ day_meals' = [day_meals EXCEPT !.meals = meals]
         /\ meal_idx' = meal_idx + 1
         /\ pc' = "generate"
         /\ UNCHANGED <<weekly_plan, day_num>>
    ELSE /\ weekly_plan' = Append(weekly_plan, [day_meals EXCEPT !.meals = meals])
         /\ IF day_num < request.days
            THEN /\ day_num' = day_num + 1
                 /\ meal_idx' = 1
                 /\ day_meals' = [day |-> day_num + 1, meals |-> <<>>]
                 /\ pc' = "generate"
            ELSE /\ pc' = "finish"
                 /\ UNCHANGED <<day_num, meal_idx, day_meals>>

\* recipe_dict as returned at line 185
AcceptedRecipe(r, v) ==
    [r EXCEPT !.nutritional_info = v.nutritional_summary] @@ [nutrition_validated |-> TRUE]

MarkValidated(log) ==
    [log EXCEPT !.calls[Len(log.calls)].validated = TRUE]

\* _generate_validated_recipe, lines 165-213: validate_recipe, then accept,
\* go on to regenerate, or leave the loop with None
ValidateStep ==
    /\ pc = "validate"
    /\ LET v == ValidateRecipe(recipe, planning_context, constraints)
       IN  /\ validation' = v
           /\ IF v.raised
              THEN /\ Raise("ZeroDivisionError")
                   /\ slot_log' = MarkValidated(slot_log)
                   /\ trace' = [trace EXCEPT !.validated = TRUE]
                   /\ UNCHANGED <<weekly_plan, day_meals, day_num, meal_idx, attempt>>
              ELSE IF Accepts(v)
              THEN /\ SlotReturns(Append(day_meals.meals, AcceptedRecipe(recipe, v)))
                   /\ attempt' = 0
                   /\ slot_log' = [MarkValidated(slot_log) EXCEPT
                                      !.status = "accepted", !.accepted = Len(slot_log.calls)]
                   /\ trace' = [trace EXCEPT !.validated = TRUE]
                   /\ UNCHANGED outcome
              ELSE IF RetryLeft(attempt, request.max_retries)
              THEN /\ pc' = "regenerate"
                   /\ slot_log' = MarkValidated(slot_log)
                   /\ trace' = [trace EXCEPT !.validated = TRUE]
                   /\ UNCHANGED <<weekly_plan, day_meals, day_num, meal_idx, attempt, outcome>>
              ELSE /\ SlotReturns(day_meals.meals)
                   /\ attempt' = 0
                   /\ slot_log' = [MarkValidated(slot_log) EXCEPT !.status = "exhausted"]
                   /\ trace' = [trace EXCEPT
                         !.validated = TRUE,
                         !.exhausted = @ \cup {[day |-> day_num, meal_type |-> MealTypes[meal_idx],
                                                validation |-> v]}]
                   /\ UNCHANGED outcome
    /\ UNCHANGED <<api_key, cache, storage_file, writers, called, returned>>
    /\ UNCHANGED <<profiles, memory, use_gemini, request, planning_context, constraints, recipe>>

\* _generate_validated_recipe, lines 194-205: the feedback and the
\* regenerate_recipe call; its recipe is bound to `recipe` and the loop's next
\* round calls generate_recipe again
RegenerateCall(llm) ==
    /\ LET feedback == GenerateFeedback(validation)
           result == RegenerateRecipe(recipe, feedback, planning_context, constraints, llm)
       IN  /\ NoteCall(FALSE, "regenerate_recipe", AdditionalRequirements(recipe, feedback),
                       llm, result)
           /\ IF result.raised
              THEN /\ Raise("pydantic.ValidationError")
                   /\ UNCHANGED <<recipe, attempt>>
              ELSE /\ recipe' = result.recipe
                   /\ attempt' = attempt + 1
                   /\ pc' = "generate"
                   /\ UNCHANGED outcome
    /\ UNCHANGED <<api_key, cache, storage_file, writers, called, returned>>
    /\ UNCHANGED <<profiles, memory, use_gemini, request, planning_context, constraints, weekly_plan,
                   day_meals, day_num, meal_idx, validation>>

RegenerateStep ==
    /\ pc = "regenerate"
    /\ \E llm \in LLMOutcomes(use_gemini, recipe.meal_type) : RegenerateCall(llm)

\* complete_plan with the days that got no meal dropped
CompletePlanDropsEmptyDays(household_id, days, plan) ==
    LET HasMeals(d) == d.meals # <<>>
    IN  [household_id |-> household_id, days |-> days, weekly_plan |-> SelectSeq(plan, HasMeals)]

\* complete_plan, lines 116-123 (optimization, grocery_list and
\* shopping_checklist are derived from weekly_plan and left out)
CompletePlan(household_id, days, plan) ==
    [household_id |-> household_id, days |-> days, weekly_plan |-> plan]

\* generate_complete_meal_plan, lines 98-136: optimize, grocery list, store
\* in memory, return
FinishPlan ==
    /\ pc = "finish"
    /\ LET complete_plan == CompletePlan(request.household_id, request.days, weekly_plan)
       IN  /\ memory' = StoreMealPlan(memory, request.household_id, complete_plan)
           /\ outcome' = [kind |-> "returned", error |-> "", plan |-> complete_plan]
    /\ pc' = "done"
    /\ UNCHANGED <<api_key, cache, storage_file, writers, called, returned>>
    /\ UNCHANGED <<profiles, use_gemini, request, planning_context, constraints, weekly_plan,
                   day_meals, day_num, meal_idx, attempt, recipe, validation, slot_log, trace>>

Next ==
    \/ \E h \in HouseholdIds, d \in 1..MaxDays, m \in 1..MaxRetries : RequestPlan(h, d, m)
    \/ GenerateStep
    \/ ValidateStep
    \/ RegenerateStep
    \/ FinishPlan

Spec == Init /\ [][Next]_vars

\* generate_complete_meal_plan is one sequential call: once it has been
\* entered, its next step is taken
RequestSteps == GenerateStep \/ ValidateStep \/ RegenerateStep \/ FinishPlan

\* the store holds the household of Bob
InitRunning ==
    /\ Init
    /\ profiles = ("h1" :> Household("h1", 45, <<Bob>>))

SpecRunning == InitRunning /\ [][Next]_vars /\ WF_vars(RequestSteps)

-----------------------------------------------------------------------------
(* validate_recipe on its own: a stored household, the context and          *)
(* constraints the profile manager builds for it, one candidate recipe      *)

InitValidate ==
    /\ profiles \in {("h1" :> Household("h1", 45, ms)) : ms \in TestRosters}
    /\ memory = InitialMemory
    /\ use_gemini = FALSE
    /\ request = NoRequest
    /\ planning_context = GeneratePlanningContext(profiles, "h1")
    /\ constraints \in GetAllConstraints(profiles, memory, "h1")
    /\ recipe \in TestRecipes
    /\ pc = "validate_call"
    /\ weekly_plan = <<>>
    /\ day_meals = <<>>
    /\ day_num = 0
    /\ meal_idx = 0
    /\ attempt = 0
    /\ validation = <<>>
    /\ outcome = NoOutcome
    /\ slot_log = NoSlotLog
    /\ trace = NoTrace
    /\ Quiet

\* validation = validate_recipe(recipe, planning_context, constraints)
ValidateCall ==
    /\ pc = "validate_call"
    /\ LET v == ValidateRecipe(recipe, planning_context, constraints)
       IN  /\ validation' = v
           /\ IF v.raised
              THEN Raise("ZeroDivisionError")
              ELSE /\ pc' = "validate_returned"
                   /\ UNCHANGED outcome
    /\ UNCHANGED <<api_key, cache, storage_file, writers, called, returned>>
    /\ UNCHANGED <<profiles, memory, use_gemini, request, planning_context, constraints, weekly_plan,
                   day_meals, day_num, meal_idx, attempt, recipe, slot_log, trace>>

SpecValidate == InitValidate /\ [][ValidateCall]_vars

-----------------------------------------------------------------------------
(* validate_recipe called twice in a row on the same arguments, with the    *)
(* lookup tool in any state: with or without an API key, the cache empty or *)
(* holding a food of an earlier search                                      *)

InitLookup ==
    /\ profiles = ("h1" :> Household("h1", 45, <<Bob>>))
    /\ memory = InitialMemory
    /\ use_gemini = FALSE
    /\ request = NoRequest
    /\ planning_context = GeneratePlanningContext(profiles, "h1")
    /\ constraints \in GetAllConstraints(profiles, memory, "h1")
    /\ recipe \in TestRecipes
    /\ pc = "validate_call"
    /\ weekly_plan = <<>>
    /\ day_meals = <<>>
    /\ day_num = 0
    /\ meal_idx = 0
    /\ attempt = 0
    /\ validation = <<>>
    /\ outcome = NoOutcome
    /\ slot_log = NoSlotLog
    /\ trace = NoTrace
    /\ api_key \in {"", "key"}
    /\ cache \in { <<>>, ("tofu" :> UsdaFood) }
    /\ storage_file = SavedText(profiles)
    /\ writers = <<>>
    /\ called = [op |-> "validate_recipe"]
    /\ returned = <<>>

\* validation = validate_recipe(recipe, planning_context, constraints), the
\* request of each of its searches ending as apis says
ValidateCachedCall(apis) ==
    /\ pc = "validate_call"
    /\ LET searched == SearchAll(api_key, cache, recipe.ingredients, apis)
           v == ValidateRecipeFrom(recipe, planning_context, constraints,
                    IF NutritionRaises(recipe) THEN <<>>
                    ELSE CalculateRecipeNutritionFrom(recipe, searched.foods))
       IN  /\ validation' = v
           /\ cache' = searched.cache
           /\ returned' = Append(returned, v)
    /\ pc' = IF Len(returned) = 1 THEN "validate_returned" ELSE pc
    /\ UNCHANGED <<api_key, storage_file, writers, called>>
    /\ UNCHANGED <<profiles, memory, use_gemini, request, planning_context, constraints,
                   weekly_plan, day_meals, day_num, meal_idx, attempt, recipe, outcome,
                   slot_log, trace>>

SpecLookup ==
    InitLookup
    /\ [][\E apis \in [1..Len(recipe.ingredients) -> ApiOutcomes] :
              ValidateCachedCall(apis)]_vars

-----------------------------------------------------------------------------
(* Operations called on their own, once, on arguments drawn from bounded    *)
(* sets; the store holds one household of a test roster                     *)

\* condition names handed to get_health_condition_guidelines
TestConditions ==
    {"diabetes", "PCOS", "high-blood-pressure", "gluten-intolerance",
     "high blood pressure", "gluten intolerance", "Diabetes", "asthma"}

\* weekly plans handed to analyze_cooking_times: up to MaxPlanDays days of
\* up to two accepted recipes each
MaxPlanDays == 3

TestPlans ==
    LET meal(t) == Recipe("Meal", "dinner", t, 4, <<>>)
        meals == UNION {[1..k -> {meal(15), meal(25)}] : k \in 0..2}
    IN  UNION {{[i \in 1..n |-> [day |-> i, meals |-> q[i]]] : q \in [1..n -> meals]} :
                  n \in 0..MaxPlanDays}

\* statistics, reuse counts and ceilings handed to calculate_optimization_score
TestScoreArgs ==
    [cooking_time_stats :
        [average_per_day : {[n |-> 0, d |-> 1], [n |-> 45, d |-> 1], [n |-> 137, d |-> 3],
                            [n |-> 60, d |-> 1], [n |-> 200, d |-> 1]},
         max_day : {0, 50}, min_day : {0, 20, 50}],
     ingredient_reuse : UNION {[1..k -> {0, 1, 2}] : k \in 0..2},
     cooking_time_max : {0, 30, 45}]

\* households of one member with an allergy, for generate_recipe
AllergicHouseholds ==
    {("h1" :> Household("h1", 45, <<FamilyMember("Dana", <<>>, allergies, restrictions, <<>>, 0)>>)) :
        allergies \in {<<"peanuts">>, <<"Egg">>, <<"salmon">>, <<"walnuts", "tofu">>},
        restrictions \in {<<>>, <<"vegetarian">>}}

\* households of one member with a health condition, or of Carol, and the
\* candidates handed to validate_recipe for them: one line of 100 grams, or
\* two lines the first of which has any unit, the servings given, 0 or absent
HealthHouseholds ==
    {("h1" :> Household("h1", 45, <<FamilyMember("Erin", <<c>>, <<>>, <<>>, <<>>, target)>>)) :
        c \in {"diabetes", "Diabetes", "PCOS", "high blood pressure"}, target \in {0, 2000}}
    \cup {("h1" :> Household("h1", 45, <<Carol>>))}

HealthRecipes ==
    {Recipe("Candidate", "dinner", 30, 4, <<Ing(name, 100, "grams")>>) :
        name \in {"Brown Sugar", "Sugary Foods Mix", "Sea Salt", "Mixed Vegetables", "tofu",
                  "Chicken Breast"}}
    \cup {Recipe("Candidate", "dinner", 30, 0, <<Ing("Mixed Vegetables", 100, "grams")>>)}
    \cup {Recipe("Candidate", "lunch", 30, 4,
                 <<Ing("rice", 200, unit), Ing("Roasted Peanuts", 100, "grams")>>) :
              unit \in {"grams", "ml", "pieces", "cups", "tbsp", ""}}
    \cup {[name |-> "Candidate", meal_type |-> "lunch", cooking_time_minutes |-> 30,
           ingredients |-> <<Ing("rice", 200, "grams"), Ing("spinach", 100, "ml")>>,
           nutritional_info |-> <<>>]}

\* a food of an earlier USDA search, kept by the cache (per 100 g, in tenths)
SaltFood ==
    [calories |-> 0, protein_g |-> 0, carbs_g |-> 0, fat_g |-> 0,
     fiber_g |-> 0, sugar_g |-> 0, sodium_mg |-> 387580]

\* weekly plans handed to suggest_batch_cooking: up to MaxBatchDays days of
\* one or two meals each
MaxBatchDays == 2

BatchPlans ==
    LET meal(ingredients) == Recipe("Meal", "dinner", 20, 4, ingredients)
        lists == { <<Ing("Chicken Breast", 300, "grams"), Ing("chicken stock", 200, "ml")>>,
                   <<Ing("Chicken Breast", 300, "grams")>>,
                   <<Ing("tofu", 400, "grams")>>,
                   <<Ing("Salmon Fish Cake", 300, "grams"), Ing("rice", 200, "grams")>> }
        meals == UNION {[1..k -> {meal(l) : l \in lists}] : k \in 1..2}
    IN  UNION {{[i \in 1..n |-> [day |-> i, meals |-> q[i]]] : q \in [1..n -> meals]} :
                  n \in 1..MaxBatchDays}

Calls ==
    {[op |-> "get_all_constraints", args |-> [household_id |-> "h1"]]}
    \cup {[op |-> "suggest_batch_cooking", args |-> [weekly_plan |-> p]] : p \in BatchPlans}
    \cup {[op |-> "validate_recipe", args |-> [recipe |-> r]] : r \in HealthRecipes}
    \cup {[op |-> "generate_recipe", args |-> [meal_type |-> MealTypes[m]]] :
              m \in 1..Len(MealTypes)}
    \cup {[op |-> "get_health_condition_guidelines", args |-> [condition |-> c]] :
              c \in TestConditions}
    \cup {[op |-> "analyze_cooking_times", args |-> [weekly_plan |-> p]] : p \in TestPlans}
    \cup {[op |-> "calculate_optimization_score", args |-> a] : a \in TestScoreArgs}

InitCalls ==
    /\ called \in Calls
    /\ profiles \in IF called.op = "get_all_constraints"
                    THEN {("h1" :> Household("h1", 45, ms)) : ms \in TestRosters}
                    ELSE IF called.op = "generate_recipe" THEN AllergicHouseholds
                    ELSE IF called.op = "validate_recipe" THEN HealthHouseholds
                    ELSE {("h1" :> Household("h1", 45, <<Bob>>))}
    /\ memory = InitialMemory
    /\ use_gemini = FALSE
    /\ Idle
    /\ api_key \in IF called.op = "validate_recipe" THEN {"", "key"} ELSE {""}
    /\ cache \in IF called.op = "validate_recipe" THEN {<<>>, ("sea salt" :> SaltFood)}
                 ELSE {<<>>}
    /\ storage_file = SavedText(profiles)
    /\ writers = <<>>
    /\ returned = <<>>

\* the call returns: nothing but the history of what was returned changes
Returns(op, results) ==
    /\ called.op = op
    /\ returned = <<>>
    /\ \E result \in results : returned' = <<result>>
    /\ UNCHANGED <<profiles, memory, use_gemini, pc, request, planning_context, constraints,
                   weekly_plan, day_meals, day_num, meal_idx, attempt, recipe, validation,
                   outcome, slot_log, trace, api_key, cache, storage_file, writers, called>>

\* profile_store.get_all_constraints(household_id)
GetAllConstraintsCall ==
    Returns("get_all_constraints",
            StoreGetAllConstraints(profiles, called.args.household_id))

\* memory.get_health_condition_guidelines(condition)
GetGuidelinesCall ==
    Returns("get_health_condition_guidelines",
            {GetHealthConditionGuidelines(memory, called.args.condition)})

\* schedule_optimizer.analyze_cooking_times(weekly_plan)
AnalyzeCookingTimesCall ==
    Returns("analyze_cooking_times", {AnalyzeCookingTimes(called.args.weekly_plan)})

\* schedule_optimizer.calculate_optimization_score(stats, reuse, cooking_time_max)
CalculateScoreCall ==
    Returns("calculate_optimization_score",
            {CalculateOptimizationScore(called.args.cooking_time_stats,
                                        called.args.ingredient_reuse,
                                        called.args.cooking_time_max)})

\* recipe_generator.generate_recipe(meal_type, context, constraints) with the
\* context and the constraints the profile manager builds for the household
GenerateRecipeCall ==
    Returns("generate_recipe",
            {GenerateRecipe(called.args.meal_type, GeneratePlanningContext(profiles, "h1"),
                            cons, llm) :
                cons \in GetAllConstraints(profiles, memory, "h1"),
                llm \in LLMOutcomes(use_gemini, called.args.meal_type)})

\* nutrition_compliance.validate_recipe(recipe, context, constraints) with the
\* context and the constraints the profile manager builds for the household
\* history: the constraints it was called with, the food data search_food
\* returned for each ingredient line, the result
ValidateRecipeCall ==
    /\ called.op = "validate_recipe"
    /\ returned = <<>>
    /\ LET r == called.args.recipe
       IN  \E apis \in [1..Len(r.ingredients) -> ApiOutcomes],
              cons \in GetAllConstraints(profiles, memory, "h1") :
               LET searched == SearchAll(api_key, cache, r.ingredients, apis)
                   nutrition == IF NutritionRaises(r) THEN <<>>
                                ELSE CalculateRecipeNutritionFrom(r, searched.foods)
               IN  /\ cache' = searched.cache
                   /\ returned' =
                          <<[constraints |-> cons, foods |-> searched.foods,
                             validation |-> ValidateRecipeFrom(r,
                                 GeneratePlanningContext(profiles, "h1"), cons, nutrition)]>>
    /\ UNCHANGED <<profiles, memory, use_gemini, pc, request, planning_context, constraints,
                   weekly_plan, day_meals, day_num, meal_idx, attempt, recipe, validation,
                   outcome, slot_log, trace, api_key, storage_file, writers, called>>

\* schedule_optimizer.suggest_batch_cooking(weekly_plan, ingredient_reuse) with
\* the counts analyze_ingredient_reuse gives for the plan
SuggestBatchCookingCall ==
    Returns("suggest_batch_cooking",
            {SuggestBatchCooking(called.args.weekly_plan,
                                 AnalyzeIngredientReuse(called.args.weekly_plan))})

NextCalls ==
    \/ GetAllConstraintsCall
    \/ SuggestBatchCookingCall
    \/ ValidateRecipeCall
    \/ GenerateRecipeCall
    \/ GetGuidelinesCall
    \/ AnalyzeCookingTimesCall
    \/ CalculateScoreCall

SpecCalls == InitCalls /\ [][NextCalls]_vars

-----------------------------------------------------------------------------
(* tools/family_profile_store.py: add_member and update_member called by     *)
(* several threads on one store.  Nothing in the store takes a lock, so the   *)
(* threads interleave between any two statements, and between the write       *)
(* calls in which the buffered text of json.dump reaches the file.            *)

MaxWriters == 2

\* a call of add_member or update_member with its position and its locals
Writer(op, name, member, updates) ==
    [op |-> op, household_id |-> "h1", name |-> name, member |-> member,
     updates |-> updates, at |-> "start", i |-> 0, data |-> <<>>, offset |-> 0]

\* the calls the threads make
WriteCalls ==
    { Writer("add_member", "Alice", Alice, <<>>),
      Writer("update_member", "Bob", <<>>,
             << [key |-> "allergies", value |-> <<"eggs">>],
                [key |-> "calorie_target", value |-> 1500] >>),
      Writer("update_member", "Bob", <<>>,
             << [key |-> "allergies", value |-> <<"soy">>],
                [key |-> "calorie_target", value |-> 2500] >>) }

\* what the threads leave alone
WriterFrame ==
    UNCHANGED <<memory, use_gemini, pc, request, planning_context, constraints, weekly_plan,
                day_meals, day_num, meal_idx, attempt, recipe, validation, outcome,
                slot_log, trace, api_key, cache, called, returned>>

\* add_member, lines 143-158: the household is looked up, the member is
\* built and put into the household's dict
AddMemberAssign(w) ==
    /\ writers[w].at = "start"
    /\ writers[w].op = "add_member"
    /\ IF ~HasHousehold(profiles, writers[w].household_id)
       THEN /\ writers' = [writers EXCEPT ![w].at = "raised"]
            /\ UNCHANGED profiles
       ELSE /\ profiles' = [profiles EXCEPT ![writers[w].household_id] =
                                AddMember(@, writers[w].member)]
            /\ writers' = [writers EXCEPT ![w].at = "save"]
    /\ UNCHANGED storage_file
    /\ WriterFrame

\* update_member, lines 205-208: get_member; None is returned for a member
\* that is not there
UpdateMemberStart(w) ==
    /\ writers[w].at = "start"
    /\ writers[w].op = "update_member"
    /\ LET found == /\ HasHousehold(profiles, writers[w].household_id)
                    /\ \E k \in 1..Len(profiles[writers[w].household_id].members) :
                           profiles[writers[w].household_id].members[k].name = writers[w].name
       IN  writers' = [writers EXCEPT
               ![w].at = IF ~found THEN "done"
                         ELSE IF Len(writers[w].updates) = 0 THEN "save" ELSE "setattr",
               ![w].i = 1]
    /\ UNCHANGED <<profiles, storage_file>>
    /\ WriterFrame

\* update_member, lines 210-212: one round of the loop, setattr(member, key, value)
SetAttr(w) ==
    /\ writers[w].at = "setattr"
    /\ LET h == writers[w].household_id
           update == writers[w].updates[writers[w].i]
       IN  profiles' = [profiles EXCEPT ![h].members =
               [k \in 1..Len(@) |->
                   IF @[k].name = writers[w].name /\ update.key \in DOMAIN @[k]
                   THEN [@[k] EXCEPT ![update.key] = update.value]
                   ELSE @[k]]]
    /\ writers' = [writers EXCEPT
           ![w].i = @ + 1,
           ![w].at = IF writers[w].i = Len(writers[w].updates) THEN "save" ELSE "setattr"]
    /\ UNCHANGED storage_file
    /\ WriterFrame

\* _save_profiles, lines 70-73: the data dict is built from the store
SaveDump(w) ==
    /\ writers[w].at = "save"
    /\ writers' = [writers EXCEPT ![w].data = SavedText(profiles), ![w].at = "open"]
    /\ UNCHANGED <<profiles, storage_file>>
    /\ WriterFrame

\* _save_profiles, line 74: open(self.storage_path, 'w') truncates the file
SaveOpen(w) ==
    /\ writers[w].at = "open"
    /\ storage_file' = <<>>
    /\ writers' = [writers EXCEPT ![w].offset = 0, ![w].at = "write"]
    /\ UNCHANGED profiles
    /\ WriterFrame

\* the file after pieces are written at a position of its own; a gap left
\* before the position reads as zero bytes
WriteAt(file, offset, pieces) ==
    LET end == offset + Len(pieces)
        n == IF Len(file) > end THEN Len(file) ELSE end
    IN  [k \in 1..n |->
            IF k > offset /\ k <= end THEN pieces[k - offset]
            ELSE IF k <= Len(file) THEN file[k]
            ELSE Piece("zero bytes", "", 0, <<>>)]

\* _save_profiles, lines 74-75: a part of the text json.dump produced, or all
\* that is left of it, reaches the file (when the buffer fills, or at close)
SaveWrite(w) ==
    /\ writers[w].at = "write"
    /\ \E n \in 1..(Len(writers[w].data) - writers[w].offset) :
          /\ storage_file' = WriteAt(storage_file, writers[w].offset,
                                     SubSeq(writers[w].data, writers[w].offset + 1,
                                            writers[w].offset + n))
          /\ writers' = [writers EXCEPT
                 ![w].offset = @ + n,
                 ![w].at = IF writers[w].offset + n = Len(writers[w].data)
                           THEN "done" ELSE "write"]
    /\ UNCHANGED profiles
    /\ WriterFrame

NextWriters ==
    \/ \E w \in DOMAIN writers : AddMemberAssign(w)
    \/ \E w \in DOMAIN writers : UpdateMemberStart(w)
    \/ \E w \in DOMAIN writers : SetAttr(w)
    \/ \E w \in DOMAIN writers : SaveDump(w)
    \/ \E w \in DOMAIN writers : SaveOpen(w)
    \/ \E w \in DOMAIN writers : SaveWrite(w)

\* a store holding household h1 with Bob, saved, and the threads' calls
InitWriters ==
    /\ profiles = ("h1" :> Household("h1", 45, <<Bob>>))
    /\ memory = InitialMemory
    /\ use_gemini = FALSE
    /\ Idle
    /\ api_key = ""
    /\ cache = <<>>
    /\ storage_file = SavedText(profiles)
    /\ writers \in [1..MaxWriters -> WriteCalls]
    /\ called = [op |-> "none"]
    /\ returned = <<>>

SpecWriters == InitWriters /\ [][NextWriters]_vars

\* a plan request for household h1 while another thread makes one call of
\* add_member or update_member on it
InitChanging ==
    /\ profiles = ("h1" :> Household("h1", 45, <<Bob>>))
    /\ memory = InitialMemory
    /\ use_gemini = FALSE
    /\ Idle
    /\ api_key = ""
    /\ cache = <<>>
    /\ storage_file = SavedText(profiles)
    /\ writers \in [{1} -> WriteCalls]
    /\ called = [op |-> "none"]
    /\ returned = <<>>

SpecChanging == InitChanging /\ [][Next \/ NextWriters]_vars

-----------------------------------------------------------------------------
(* store_meal_plan called up to MaxStores times in a row for two households: *)
(* h1 stores a plan of another length each time, h2 the same plan each time  *)

MaxStores == 12

InitStore ==
    /\ called = [op |-> "store_meal_plan"]
    /\ profiles = ("h1" :> Household("h1", 45, <<Bob>>))
    /\ memory = InitialMemory
    /\ use_gemini = FALSE
    /\ Idle
    /\ api_key = ""
    /\ cache = <<>>
    /\ storage_file = SavedText(profiles)
    /\ writers = <<>>
    /\ returned = <<>>

\* memory.store_meal_plan(household_id, plan); history: the entries stored
StoreMealPlanCall(household_id) ==
    /\ called.op = "store_meal_plan"
    /\ Len(returned) < MaxStores
    /\ LET plan == CompletePlan(household_id,
                       IF household_id = "h1" THEN Len(returned) + 1 ELSE 1, <<>>)
       IN  /\ memory' = StoreMealPlan(memory, household_id, plan)
           /\ returned' = Append(returned, [household_id |-> household_id, plan |-> plan])
    /\ UNCHANGED <<profiles, use_gemini, pc, request, planning_context, constraints,
                   weekly_plan, day_meals, day_num, meal_idx, attempt, recipe, validation,
                   outcome, slot_log, trace, api_key, cache, storage_file, writers, called>>

SpecStore == InitStore /\ [][\E h \in HouseholdIds : StoreMealPlanCall(h)]_vars

-----------------------------------------------------------------------------
(* Properties of generate_complete_meal_plan, under Spec *)

\* the days planned so far: those appended to weekly_plan, then the day in hand
PlannedDays ==
    IF day_meals # <<>> /\ \A i \in 1..Len(weekly_plan) : weekly_plan[i].day # day_meals.day
    THEN Append(weekly_plan, day_meals)
    ELSE weekly_plan

PlannedMeals == Flatten([i \in 1..Len(PlannedDays) |-> PlannedDays[i].meals])

\* the candidate a meal of the plan was made from
CandidateOf(meal) == Recipe(meal.name, meal.meal_type, meal.cooking_time_minutes,
                            meal.servings, meal.ingredients)

\* what validate_recipe says of a candidate of the running request
Verdict(r) == ValidateRecipe(r, planning_context, constraints)

Compliant(r) == ~Verdict(r).raised /\ Verdict(r).is_compliant
Violating(r) == ~Verdict(r).raised /\ ~Verdict(r).is_compliant

\* C1: every recipe in a day of the plan, while it is built and when it is
\* returned, is a candidate that validate_recipe found compliant and carries
\* that validation's nutrition; the candidate accepted for a slot is one the
\* loop validated, and it is the meal the slot added to its day.
C1_OnlyValidatedCompliantMeals ==
    /\ \A i \in 1..Len(PlannedMeals) :
          LET meal == PlannedMeals[i]
          IN  /\ Compliant(CandidateOf(meal))
              /\ meal.nutrition_validated
              /\ meal.nutritional_info = Verdict(CandidateOf(meal)).nutritional_summary
    /\ slot_log.status = "accepted" =>
          LET call  == slot_log.calls[slot_log.accepted]
              today == PlannedDays[CHOOSE i \in 1..Len(PlannedDays) :
                                      PlannedDays[i].day = slot_log.day].meals
          IN  /\ call.validated
              /\ ~call.raised
              /\ Compliant(call.recipe)
              /\ Len(today) > 0
              /\ CandidateOf(today[Len(today)]) = call.recipe
    /\ outcome.kind = "returned" => outcome.plan.weekly_plan = weekly_plan

\* a plan is returned in which a slot was filled after a rejected candidate
\* and another slot was left without a meal
C1_Witness ==
    /\ pc = "done"
    /\ slot_log.status = "accepted"
    /\ slot_log.accepted > 1
    /\ Violating(slot_log.calls[1].recipe)
    /\ trace.exhausted # {}
    /\ Len(PlannedMeals) > 0

\* C2: while one slot is planned, generate_recipe is reached at most
\* max_retries times, directly or through regenerate_recipe.
C2_AtMostMaxRetriesCalls ==
    Len(slot_log.calls) <= request.max_retries

\* C3: with max_retries = 2, a slot whose first candidate from the source is
\* violating and whose second is compliant ends with the second candidate
\* accepted after exactly 2 calls.
C3_SecondCandidateAccepted ==
    ( /\ request.max_retries = 2
      /\ slot_log.status \in {"accepted", "exhausted"}
      /\ Len(slot_log.calls) >= 2
      /\ ~slot_log.calls[1].raised /\ Violating(slot_log.calls[1].recipe)
      /\ ~slot_log.calls[2].raised /\ Compliant(slot_log.calls[2].recipe) )
    => /\ slot_log.status = "accepted"
       /\ slot_log.accepted = 2
       /\ Len(slot_log.calls) = 2

\* one entry per day, in order, none with a meal
EmptyDays(plan, days) ==
    /\ Len(plan) = days
    /\ \A i \in 1..Len(plan) : plan[i].day = i /\ plan[i].meals = <<>>

\* the k-th slot in planning order
SlotAt(k) == <<((k - 1) \div Len(MealTypes)) + 1, MealTypes[((k - 1) % Len(MealTypes)) + 1]>>

\* C4: with max_retries = 2 and a source all of whose candidates are
\* violating, the request does not raise, no slot puts a meal into a day, the
\* slots are attempted in order, and what is returned has one entry per day
\* with all 3 * days slots attempted.
C4_AllViolatingStillReturns ==
    (trace.source_called /\ trace.all_violating /\ request.max_retries = 2)
    => /\ pc # "raised"
       /\ outcome.kind # "raised"
       /\ PlannedMeals = <<>>
       /\ \A k \in 1..Len(trace.slots) : trace.slots[k] = SlotAt(k)
       /\ pc \in {"finish", "done"} =>
             /\ Len(trace.slots) = Len(MealTypes) * request.days
             /\ Cardinality(trace.exhausted) = Len(MealTypes) * request.days
       /\ pc = "done" =>
             /\ outcome.kind = "returned"
             /\ EmptyDays(outcome.plan.weekly_plan, request.days)

\* the plan of an always-violating source has been returned
C4_Witness ==
    /\ pc = "done"
    /\ trace.source_called /\ trace.all_violating
    /\ request.max_retries = 2
    /\ request.days = MaxDays
    /\ outcome.kind = "returned"

\* C5: the returned result has, for every slot that ran out of attempts, an
\* entry for its day and meal type.
C5_ExhaustedSlotsReported ==
    outcome.kind = "returned" =>
        \A e \in trace.exhausted :
            \E i \in 1..Len(outcome.plan.weekly_plan) :
                /\ outcome.plan.weekly_plan[i].day = e.day
                /\ \E k \in 1..Len(outcome.plan.weekly_plan[i].meals) :
                      outcome.plan.weekly_plan[i].meals[k].meal_type = e.meal_type

\* the household id is unknown, or the roster is empty, or the cooking-time
\* ceiling is not positive
InvalidRequest(profs, household_id) ==
    \/ household_id \notin DOMAIN profs
    \/ profs[household_id].members = <<>>
    \/ profs[household_id].cooking_time_max_minutes <= 0

\* C6: a request for an unknown household, a household without members or
\* one whose cooking-time ceiling is <= 0 has failed with an error, and
\* neither generate_recipe nor validate_recipe has been called.
C6_InvalidRequestFailsFirst ==
    (request # NoRequest /\ InvalidRequest(profiles, request.household_id))
    => /\ pc = "raised"
       /\ outcome.kind = "raised"
       /\ Contains("ValueError", outcome.error)
       /\ ~trace.source_called
       /\ ~trace.validated
       /\ slot_log = NoSlotLog

\* a request for a stored household without members has failed
C6_Witness ==
    /\ pc = "raised"
    /\ request.household_id \in DOMAIN profiles
    /\ profiles[request.household_id].members = <<>>
    /\ Contains("No family members", outcome.error)

\* C7: whenever the LLM call fails or answers with something that is not a
\* Recipe, generate_recipe returns the mock recipe of the slot's meal type
\* and constraints, and raises nothing.
C7_FallbackOnEveryLLMFailure ==
    \A i \in 1..Len(slot_log.calls) :
        slot_log.calls[i].llm # "recipe" =>
            /\ ~slot_log.calls[i].raised
            /\ slot_log.calls[i].recipe =
                  GenerateMockRecipe(slot_log.meal_type, planning_context, constraints)

\* C18 as stated: a plan request only reads the memory bank, whose state
\* after generate_complete_meal_plan returns is the state before the call.
C18_MemoryUnchanged ==
    pc = "done" => memory = InitialMemory

\* C18 as amended: a plan request that returns has appended the returned plan
\* to the historical plans and changed nothing else of the memory bank; as
\* long as it has not returned, and when it raises, the memory bank is as
\* before the call.
C18_OnlyReturnedPlanStored ==
    /\ memory.disliked_ingredients = InitialMemory.disliked_ingredients
    /\ memory.health_condition_mappings = InitialMemory.health_condition_mappings
    /\ memory.historical_plans =
          IF pc = "done"
          THEN <<[household_id |-> request.household_id, plan |-> outcome.plan]>>
          ELSE InitialMemory.historical_plans

\* a request has returned a plan with a meal in it
C18_Witness ==
    /\ pc = "done"
    /\ outcome.kind = "returned"
    /\ \E d \in 1..Len(outcome.plan.weekly_plan) : outcome.plan.weekly_plan[d].meals # <<>>
    /\ Len(memory.historical_plans) = 1

\* C21: within one slot, every candidate validated on an attempt after the
\* first was requested from the Recipe Source with the feedback text made from
\* the ValidationResult of the attempt just before it; the first attempt's
\* candidate was requested without feedback.
C21_RetriesCarryFeedback ==
    LET calls == slot_log.calls
        Attempts == {k \in 1..Len(calls) : calls[k].validated}
    IN  \A k \in Attempts :
            LET Earlier == {j \in Attempts : j < k}
            IN  IF Earlier = {}
                THEN calls[k].additional_requirements = NoRequirements
                ELSE LET p == CHOOSE j \in Earlier : \A i \in Earlier : i <= j
                     IN  calls[k].additional_requirements =
                             AdditionalRequirements(calls[p].recipe,
                                 GenerateFeedback(Verdict(calls[p].recipe)))

\* C22: an error raised while validating the candidate of one slot (a
\* candidate whose servings is 0) stays in that slot: it never ends the
\* request, whose remaining slots and days are still planned.
C22_ValidationErrorConfined ==
    \A k \in 1..Len(slot_log.calls) :
        ( /\ slot_log.calls[k].validated
          /\ ~slot_log.calls[k].raised
          /\ Verdict(slot_log.calls[k].recipe).raised )
        => outcome.kind # "raised"

\* position of a meal type in the order breakfast, lunch, dinner; 0 for any
\* other text
MealTypeIndex(meal_type) ==
    IF \E k \in 1..Len(MealTypes) : MealTypes[k] = meal_type
    THEN CHOOSE k \in 1..Len(MealTypes) : MealTypes[k] = meal_type
    ELSE 0

\* C28: in every plan generate_complete_meal_plan returns the days are
\* numbered 1..days in order, one entry per day, each day holds at most 3
\* accepted recipes, the recipe accepted for a slot has the meal type the
\* slot was requested as, and so the recipes of a day are of different meal
\* types, in breakfast, lunch, dinner order.
C28_PlanShape ==
    /\ slot_log.status = "accepted" =>
           slot_log.calls[slot_log.accepted].recipe.meal_type = slot_log.meal_type
    /\ outcome.kind = "returned" =>
           LET plan == outcome.plan.weekly_plan
           IN  /\ Len(plan) = request.days
               /\ \A d \in 1..Len(plan) :
                      /\ plan[d].day = d
                      /\ Len(plan[d].meals) <= 3
                      /\ \A a, b \in 1..Len(plan[d].meals) :
                             a < b => /\ MealTypeIndex(plan[d].meals[a].meal_type) > 0
                                      /\ MealTypeIndex(plan[d].meals[a].meal_type)
                                            < MealTypeIndex(plan[d].meals[b].meal_type)

-----------------------------------------------------------------------------
(* Properties of a plan request that keeps running, under SpecRunning *)

\* the candidates of the latest slot that were validated
Validated(log) == {k \in 1..Len(log.calls) : log.calls[k].validated}

\* C29: every plan request terminates: whatever candidates the Recipe Source
\* gives, a slot is tried at most max_retries times, the next slot is begun
\* and the plan returned only after the slot ended accepted or exhausted, no
\* Recipe Source call is made for a slot once it is accepted or exhausted,
\* and the request eventually returns a plan or raises (a request that was
\* made never comes back to "idle": from some point on it is done or raised).
C29_RequestTerminates ==
    /\ [](Cardinality(Validated(slot_log)) <= request.max_retries)
    /\ [](pc = "done" => slot_log.status \in {"accepted", "exhausted"})
    /\ [][slot_log'.calls # slot_log.calls =>
             IF <<slot_log'.day, slot_log'.meal_type>> = <<slot_log.day, slot_log.meal_type>>
             THEN slot_log.status = "open"
             ELSE /\ slot_log.status \in {"none", "accepted", "exhausted"}
                  /\ Len(slot_log'.calls) = 1]_vars
    /\ <>[](pc \in {"idle", "done", "raised"})

\* a request that returned after a slot was given up with every attempt used
C29_Witness ==
    /\ pc = "done"
    /\ outcome.kind = "returned"
    /\ request.max_retries = MaxRetries
    /\ slot_log.status = "exhausted"
    /\ Cardinality(Validated(slot_log)) = MaxRetries

-----------------------------------------------------------------------------
(* Properties of validate_recipe, under SpecValidate *)

\* some violation string of the result contains every one of the texts
SomeViolationHas(v, texts) ==
    \E k \in 1..Len(v.violations) : \A t \in texts : Contains(t, v.violations[k])

\* C8: once validate_recipe has been called on a recipe one of whose
\* ingredient names, lower-cased, contains an allergy term, lower-cased, it
\* has returned a result that is not compliant and has a violation
\* containing that allergy term.
C8_AllergenMatchBlocks ==
    pc # "validate_call" =>
        \A i \in 1..Len(recipe.ingredients) : \A a \in 1..Len(constraints.allergies) :
            Contains(Lower(constraints.allergies[a]), Lower(recipe.ingredients[i].name))
            => /\ pc = "validate_returned"
               /\ ~validation.is_compliant
               /\ SomeViolationHas(validation, {constraints.allergies[a]})

\* C9: for the household of Bob, allergic to "peanuts", the result for a
\* recipe with an ingredient named "peanut butter" is not compliant and has a
\* violation containing both "peanuts" and "peanut butter".
C9_PeanutButterBlockedForBob ==
    ( /\ pc = "validate_returned"
      /\ planning_context.members = <<Bob>>
      /\ constraints.allergies = <<"peanuts">>
      /\ \E i \in 1..Len(recipe.ingredients) : recipe.ingredients[i].name = "peanut butter" )
    => /\ ~validation.is_compliant
       /\ SomeViolationHas(validation, {"peanuts", "peanut butter"})

VegetarianForbidden == {"chicken", "beef", "pork", "fish", "salmon"}

\* C10: a recipe reported compliant under constraints whose dietary
\* restrictions include vegetarian, in whatever letter case, has no
\* ingredient name that contains chicken, beef, pork, fish or salmon, as
\* written or lower-cased.
C10_VegetarianCompliantHasNoMeat ==
    ( /\ pc = "validate_returned"
      /\ validation.is_compliant
      /\ \E k \in 1..Len(constraints.dietary_restrictions) :
            Lower(constraints.dietary_restrictions[k]) = "vegetarian" )
    => \A i \in 1..Len(recipe.ingredients) : \A t \in VegetarianForbidden :
          /\ ~Contains(t, recipe.ingredients[i].name)
          /\ ~Contains(t, Lower(recipe.ingredients[i].name))

\* a recipe was reported compliant for a household whose restriction is
\* written "VEGETARIAN", and another restriction "Vegetarian"
C10_Witness ==
    /\ pc = "validate_returned"
    /\ validation.is_compliant
    /\ InList("VEGETARIAN", constraints.dietary_restrictions)
    /\ InList("Vegetarian", constraints.dietary_restrictions)
    /\ \E i \in 1..Len(recipe.ingredients) : recipe.ingredients[i].name = "tofu"

\* C16: when the lower-cased name of an ingredient of the recipe contains a
\* lower-cased term of the household's dislikes, the result validate_recipe
\* returns has at least one warning or at least one violation.
C16_DislikedIngredientReported ==
    (/\ pc = "validate_returned"
     /\ \E i \in 1..Len(recipe.ingredients), k \in 1..Len(constraints.dislikes) :
            Contains(Lower(constraints.dislikes[k]), Lower(recipe.ingredients[i].name)))
        => (Len(validation.warnings) > 0 \/ Len(validation.violations) > 0)

-----------------------------------------------------------------------------
(* Properties of validate_recipe and the lookup cache, under SpecLookup *)

\* C11: two validate_recipe calls in a row on the same recipe, planning
\* context and constraints return identical results, whatever the cache
\* holds and however the lookups' requests end.
C11_ValidateTwiceSame ==
    Len(returned) = 2 => returned[1] = returned[2]

-----------------------------------------------------------------------------
(* Properties of operations called on their own, under SpecCalls *)

Entries(list) == {list[i] : i \in 1..Len(list)}

\* C12: each of the four lists get_all_constraints returns holds exactly the
\* entries of that list over all members, whatever the order the members
\* were added in, each once, and no two of its entries differ only in letter
\* case.
C12_UnionWithoutCaseDuplicates ==
    (called.op = "get_all_constraints" /\ returned # <<>>) =>
        \A field \in {"allergies", "dietary_restrictions", "health_conditions", "dislikes"} :
            LET list == returned[1][field]
            IN  /\ Entries(list) = MemberUnion(profiles[called.args.household_id], field)
                /\ \A i, j \in 1..Len(list) :
                       Lower(list[i]) = Lower(list[j]) => i = j

\* the default table's key of a default condition's name
DefaultKey ==
    ("diabetes" :> "diabetes") @@ ("PCOS" :> "PCOS")
    @@ ("high-blood-pressure" :> "high blood pressure")
    @@ ("high blood pressure" :> "high blood pressure")
    @@ ("gluten-intolerance" :> "gluten intolerance")
    @@ ("gluten intolerance" :> "gluten intolerance")

\* C13: the guideline lookup returns, for each default condition (diabetes,
\* PCOS, high blood pressure, gluten intolerance), the non-empty avoid and
\* prefer lists the default table has for it, and empty lists for a condition
\* the table does not know.
C13_DefaultGuidelinesFound ==
    (called.op = "get_health_condition_guidelines" /\ returned # <<>>) =>
        LET condition == called.args.condition
            got == returned[1]
        IN  IF condition \in DOMAIN DefaultKey
            THEN /\ got = health_condition_mappings[DefaultKey[condition]]
                 /\ got.avoid # <<>>
                 /\ got.prefer # <<>>
            ELSE Lower(condition) \notin {Lower(k) : k \in DOMAIN DefaultKey}
                     => got = [avoid |-> <<>>, prefer |-> <<>>]

\* C14: calculate_optimization_score does not fail and returns a score
\* between 0 and 100, for all non-negative statistics, reuse counts and
\* cooking-time ceilings.
C14_ScoreWithinBounds ==
    (called.op = "calculate_optimization_score" /\ returned # <<>>) =>
        LET score == returned[1]
        IN  /\ ~score.raised
            /\ 0 <= score.n
            /\ score.n <= 100 * score.d

RECURSIVE SumOf(_)
SumOf(q) == IF Len(q) = 0 THEN 0 ELSE Head(q) + SumOf(Tail(q))

\* C15: analyze_cooking_times returns one entry per day, the sum of the
\* cooking times of that day's recipes; the total is the sum of the entries,
\* the average the total over the number of days, max and min the largest
\* and the smallest entry (entries 40, 50, 30 give 120, 40, 50, 30); all
\* statistics of an empty plan are 0.
C15_CookingTimeStatistics ==
    (called.op = "analyze_cooking_times" /\ returned # <<>>) =>
        LET plan  == called.args.weekly_plan
            stats == returned[1]
            daily == stats.daily_times
        IN  /\ Len(daily) = Len(plan)
            /\ \A i \in 1..Len(plan) :
                   daily[i] = SumOf([k \in 1..Len(plan[i].meals) |->
                                        plan[i].meals[k].cooking_time_minutes])
            /\ stats.total_minutes = SumOf(daily)
            /\ IF Len(plan) = 0
               THEN /\ stats.average_per_day.n = 0
                    /\ stats.max_day = 0
                    /\ stats.min_day = 0
                    /\ stats.total_minutes = 0
               ELSE /\ stats.average_per_day.n = SumOf(daily)
                    /\ stats.average_per_day.d = Len(plan)
                    /\ \E i \in 1..Len(daily) : stats.max_day = daily[i]
                    /\ \E i \in 1..Len(daily) : stats.min_day = daily[i]
                    /\ \A i \in 1..Len(daily) :
                           stats.min_day <= daily[i] /\ daily[i] <= stats.max_day
            /\ daily = <<40, 50, 30>> =>
                   /\ stats.total_minutes = 120
                   /\ stats.average_per_day.n = 40 * stats.average_per_day.d
                   /\ stats.max_day = 50
                   /\ stats.min_day = 30

\* the plan of the example has been analyzed
C15_Witness ==
    /\ called.op = "analyze_cooking_times"
    /\ returned # <<>>
    /\ returned[1].daily_times = <<40, 50, 30>>

\* C17: without the LLM, the recipe generate_recipe returns for a meal type
\* and a household's constraints has no ingredient whose lower-cased name
\* contains the lower-cased text of one of the household's allergy terms.
C17_MockRecipeFreeOfAllergens ==
    (called.op = "generate_recipe" /\ returned # <<>> /\ ~use_gemini) =>
        /\ ~returned[1].raised
        /\ LET ingredients == returned[1].recipe.ingredients
           IN  \A i \in 1..Len(ingredients) :
                   \A a \in MemberUnion(profiles["h1"], "allergies") :
                       ~Contains(Lower(a), Lower(ingredients[i].name))

\* the guidelines the memory bank holds for a condition, whatever the letter
\* case the condition is written in
GuidelinesFor(condition) ==
    LET keys == {k \in DOMAIN health_condition_mappings : Lower(k) = Lower(condition)}
    IN  IF keys = {} THEN NoGuidelines ELSE health_condition_mappings[CHOOSE k \in keys : TRUE]

\* C23: with the constraints get_all_constraints builds for a household with
\* a member of health condition c, in any letter case, the result for a
\* recipe with an ingredient whose lower-cased name contains an avoid term of
\* c is not compliant and has a violation naming c and the ingredient; a
\* recipe without any prefer term of c gets a warning naming c, and no
\* violation for that.
C23_HealthAvoidTermsBlock ==
    (called.op = "validate_recipe" /\ returned # <<>>) =>
        LET r == called.args.recipe
            v == returned[1].validation
            conditions == returned[1].constraints.health_conditions
            Has(terms) == {i \in 1..Len(r.ingredients) :
                              \E t \in 1..Len(terms) :
                                  Contains(Lower(terms[t]), Lower(r.ingredients[i].name))}
        IN  \A c \in 1..Len(conditions) :
                LET g == GuidelinesFor(conditions[c])
                IN  /\ \A i \in Has(g.avoid) :
                           /\ ~v.is_compliant
                           /\ SomeViolationHas(v, {conditions[c], r.ingredients[i].name})
                    /\ (Has(g.prefer) = {} /\ Len(g.prefer) > 0) =>
                           \E w \in 1..Len(v.warnings) : Contains(conditions[c], v.warnings[w])
                    /\ Has(g.avoid) = {} =>
                           ~\E k \in 1..Len(v.violations) : Contains(conditions[c], v.violations[k])

\* some ingredient name of the recipe, lower-cased, contains one of the
\* terms, lower-cased
SomeIngredientHas(r, terms) ==
    \E i \in 1..Len(r.ingredients) : \E t \in 1..Len(terms) :
        Contains(Lower(terms[t]), Lower(r.ingredients[i].name))

\* the recipe matches an allergy, a forbidden term of a dietary restriction
\* or an avoid term of a health guideline of the constraints
BlockingMatch(r, cons) ==
    \/ SomeIngredientHas(r, cons.allergies)
    \/ \E k \in 1..Len(cons.dietary_restrictions) :
           /\ Lower(cons.dietary_restrictions[k]) \in DOMAIN restriction_patterns
           /\ SomeIngredientHas(r, restriction_patterns[Lower(cons.dietary_restrictions[k])])
    \/ \E c \in DOMAIN cons.health_guidelines :
           SomeIngredientHas(r, cons.health_guidelines[c].avoid)

\* C24: a result validate_recipe returns is compliant exactly when its
\* violations list is empty; the result for a recipe with no allergen,
\* dietary-restriction or health-condition avoid match is compliant whatever
\* its nutrition values are and whatever calorie warnings, sodium warning and
\* protein or fiber recommendations it gets, and every violation is one of
\* those three kinds.
C24_OnlyMatchesBlock ==
    (called.op = "validate_recipe" /\ returned # <<>> /\ ~returned[1].validation.raised) =>
        LET r == called.args.recipe
            v == returned[1].validation
        IN  /\ v.is_compliant <=> (Len(v.violations) = 0)
            /\ ~BlockingMatch(r, returned[1].constraints) => v.is_compliant
            /\ \A k \in 1..Len(v.violations) :
                   /\ BlockingMatch(r, returned[1].constraints)
                   /\ \/ Contains("ALLERGEN ALERT: ", v.violations[k])
                      \/ Contains(" restriction violated: contains ", v.violations[k])
                      \/ Contains(": should avoid ", v.violations[k])

\* a compliant result with a calorie warning, the sodium warning and both
\* recommendations
C24_Witness ==
    /\ called.op = "validate_recipe"
    /\ returned # <<>>
    /\ returned[1].validation.is_compliant
    /\ \E w \in 1..Len(returned[1].validation.warnings) :
           Contains("calories under target", returned[1].validation.warnings[w])
    /\ \E w \in 1..Len(returned[1].validation.warnings) :
           Contains("High sodium content", returned[1].validation.warnings[w])
    /\ Len(returned[1].validation.recommendations) = 2

\* the sum, over the ingredient lines with one of the units whose lookup
\* returned, of the nutrient the lookup gives for the line's amount
TotalOfUnits(r, foods, units, f) ==
    SumOf([i \in 1..Len(r.ingredients) |->
              IF r.ingredients[i].unit \in units /\ ~LookupRaises(foods[i])
              THEN foods[i][f] * r.ingredients[i].amount
              ELSE 0])

\* C25: the nutrition totals of a recipe are the sum of the nutrient lookups
\* of exactly the ingredient lines whose unit is grams or ml (ml counted as
\* grams); a line with unit "pieces" or any other unit, or none, adds
\* nothing; each total is divided by servings, 4 when absent.
C25_OnlyGramsAndMlCounted ==
    (called.op = "validate_recipe" /\ returned # <<>>) =>
        LET r == called.args.recipe
            v == returned[1].validation
        IN  /\ ~v.raised
            /\ \A f \in NutrientFields :
                   v.nutritional_summary[f] =
                       RoundHalfEven(TotalOfUnits(r, returned[1].foods, {"grams", "ml"}, f),
                                     10 * (IF "servings" \in DOMAIN r THEN r.servings ELSE 4))

\* the ingredient lines whose nutrient lookup was made and raised
FailedLines(r, foods) ==
    {i \in 1..Len(r.ingredients) :
        r.ingredients[i].unit # "pieces" /\ LookupRaises(foods[i])}

C27_BatchCookForTwoMeals ==
    (called.op = "suggest_batch_cooking" /\ returned # <<>>) =>
        LET meals == MealsOf(called.args.weekly_plan)
            suggestions == returned[1]
        IN  \A p \in 1..Len(Proteins) :
                LET with == {m \in 1..Len(meals) :
                                \E i \in 1..Len(meals[m].meal.ingredients) :
                                    Contains(Proteins[p],
                                             Lower(meals[m].meal.ingredients[i].name))}
                IN  (\E k \in 1..Len(suggestions) :
                         Contains("Batch cook " \o Proteins[p] \o " ", suggestions[k]))
                    <=> Cardinality(with) >= 2

-----------------------------------------------------------------------------
(* Properties of concurrent writes to the profile store, under SpecWriters *)

\* add_member or update_member as one whole write of the store
WholeWrite(store, writer) ==
    IF writer.op = "add_member"
    THEN [store EXCEPT ![writer.household_id] = AddMember(@, writer.member)]
    ELSE [store EXCEPT ![writer.household_id].members =
             [k \in 1..Len(@) |->
                 IF @[k].name = writer.name
                 THEN [f \in DOMAIN @[k] |->
                          IF \E u \in 1..Len(writer.updates) : writer.updates[u].key = f
                          THEN writer.updates[CHOOSE u \in 1..Len(writer.updates) :
                                                  writer.updates[u].key = f].value
                          ELSE @[k][f]]
                 ELSE @[k]]]

RECURSIVE SerialStores(_, _)
\* the stores left by some of the threads' writes, done whole, one after
\* another in some order
SerialStores(store, ids) ==
    {store} \cup UNION {SerialStores(WholeWrite(store, writers[w]), ids \ {w}) : w \in ids}

\* C19: however concurrent add_member / update_member writes interleave,
\* the household's record in the store and the record in the persisted file
\* are at all times a complete record as whole writes, done one after
\* another, leave it: never a partly written record, never a mixture of two
\* writes in progress.
C19_WritesTakeEffectWhole ==
    writers # <<>> =>
        LET whole == SerialStores(("h1" :> Household("h1", 45, <<Bob>>)), DOMAIN writers)
        IN  /\ profiles \in whole
            /\ storage_file \in {SavedText(store) : store \in whole}

-----------------------------------------------------------------------------
(* Properties of a plan request on a changing household, under SpecChanging *)

\* C20: whenever a candidate is about to be validated, the constraint set
\* handed to validate_recipe is the aggregation of the household's members
\* as they are at that moment, also after add_member or update_member has
\* changed the household since the request began (no update being half
\* applied).
C20_ConstraintsNeverStale ==
    (/\ pc = "validate"
     /\ \A w \in DOMAIN writers : writers[w].at # "setattr")
        => constraints \in GetAllConstraints(profiles, memory, request.household_id)

-----------------------------------------------------------------------------
(* Properties of the stored plans, under SpecStore *)

\* how many of the entries stored after the i-th are of the same household
LaterOfSame(stored, i) ==
    Cardinality({j \in (i + 1)..Len(stored) : stored[j].household_id = stored[i].household_id})

\* the entries of a list at the positions of a set, in order
RECURSIVE Pick(_, _, _)
Pick(list, positions, i) ==
    IF i > Len(list) THEN <<>>
    ELSE (IF i \in positions THEN <<list[i]>> ELSE <<>>) \o Pick(list, positions, i + 1)

\* C30: after any sequence of store_meal_plan calls for any mix of
\* households the memory bank holds at most 10 plans per household, those of
\* a household are its most recently stored ones in storage order, and a
\* store for one household removes or reorders no plan of another: the list
\* is the stored entries, in order, less those with 10 or more later entries
\* of their household.
C30_LastTenPerHousehold ==
    called.op = "store_meal_plan" =>
        /\ \A h \in HouseholdIds :
               Len(SelectSeqBy(memory.historical_plans, h)) <= 10
        /\ memory.historical_plans =
               Pick(returned, {i \in 1..Len(returned) : LaterOfSame(returned, i) < 10}, 1)

\* h1 has stored more than 10 plans, with stores of h2 before and among them
C30_Witness ==
    /\ called.op = "store_meal_plan"
    /\ Len(SelectSeqBy(returned, "h1")) > 10
    /\ Len(SelectSeqBy(returned, "h2")) > 0
    /\ returned[1].household_id = "h2"
    /\ Len(SelectSeqBy(memory.historical_plans, "h1")) = 10

====
